---- MODULE Spec2Model ----
(***************************************************************************)
(* Model of the news agent (news_agent.py and its variants) and of the     *)
(* weekly meal planner (meal_planner.py and its variants).                 *)
(*                                                                         *)
(* Text is modelled as a sequence of one-character strings, so that        *)
(* str.strip, str.lower, str.split, len and slicing are computed as Python *)
(* computes them; a character outside ASCII is written by its name         *)
(* ("i_acute", "en_dash", "ellipsis").  An instant is a number of half     *)
(* hours since an epoch that falls on a UTC midnight; a timezone is its    *)
(* offset in half hours.                                                   *)
(***************************************************************************)
EXTENDS Integers, Sequences, FiniteSets, TLC

VARIABLES
    pc,               \* position of the operation under way
    articles,         \* the list of article dicts handed to a news function
    categories,       \* categorize_articles: the mapping it returns
    max_articles,     \* prepare_news_message / build_headline_message argument
    max_chars,        \* prepare_news_message argument
    message,          \* the composed message: its lines and its text
    now,              \* the clock: the current instant
    tz,               \* filter_today_articles: the tz argument (an offset)
    filtered,         \* filter_today_articles: result of the first application
    refiltered,       \* filter_today_articles applied to its own output
    reads,            \* the instants datetime.now() returned to the calls so far
    page,             \* parse_recipe: what requests.get(url) answers
    variant,          \* which copy of the meal planner runs
    parsed,           \* parse_recipe: its outcome
    all_ingredients,  \* build_menu: the ingredient strings gathered so far
    shopping,         \* build_menu: the deduplicated, sorted shopping list
    send_message,     \* daily_job: the send_message argument
    content_sid,      \* whether CONTENT_SID_DAILY is set in the environment
    environ,          \* os.environ and the import of twilio, as the senders read them
    messages,         \* the messages a job prepared for dispatch
    calls,            \* the calls of the dispatcher so far, with their outcome
    outcome,          \* how the job ended: "running", "returned" or "raised"
    blog,             \* get_recipe_urls: what requests.get(BLOG_URL) answers
    urls,             \* build_menu: the list get_recipe_urls returned
    menu,             \* build_menu: the (name, url) pairs of the menu
    sources,          \* collect_today_news: the state of each source
    fetched,          \* collect_today_news: the sources requested so far
    doc,              \* the document an extractor reads (a feed, a home page)
    limit,            \* max_entries of get_rss_articles, max_articles of the scrape
    result,           \* the list an extractor or collect_today_news returns
    host_tz,          \* the timezone of the host the scheduler runs on
    runs,             \* the instants at which the scheduler ran the job
    next_run          \* the instant the scheduler holds for the next run

vars == <<pc, articles, categories, max_articles, max_chars, message, now, tz,
          filtered, refiltered, reads, page, variant, parsed, all_ingredients,
          shopping, send_message, content_sid, environ, messages, calls, outcome, blog,
          urls, menu, sources, fetched, doc, limit, result, host_tz, runs,
          next_run>>

newsVars == <<articles, categories, max_articles, max_chars, message, now, tz,
              filtered, refiltered, reads>>

mealVars == <<page, variant, parsed, all_ingredients, shopping>>

dispatchVars == <<send_message, content_sid, environ, messages, calls, outcome>>

menuVars == <<blog, urls, menu>>

extractVars == <<sources, fetched, doc, limit, result>>

schedVars == <<host_tz, runs, next_run>>

runVars == <<dispatchVars, menuVars, extractVars, schedVars>>

-----------------------------------------------------------------------------
(* Text.                                                                   *)

\* n copies of the character c
Rep(c, n) == [i \in 1..n |-> c]

\* the characters str.strip and str.split() treat as whitespace
Whitespace == {" ", "\t", "\n"}

UpperChars == <<"A", "B", "C", "D", "E", "F", "G", "H", "I", "J", "K", "L", "M",
                "N", "O", "P", "Q", "R", "S", "T", "U", "V", "W", "X", "Y", "Z",
                "I_acute">>

LowerChars == <<"a", "b", "c", "d", "e", "f", "g", "h", "i", "j", "k", "l", "m",
                "n", "o", "p", "q", "r", "s", "t", "u", "v", "w", "x", "y", "z",
                "i_acute">>

\* str.lower on one character: case is folded, diacritics are kept
LowerChar(c) ==
    IF \E i \in 1..Len(UpperChars) : UpperChars[i] = c
    THEN LowerChars[CHOOSE i \in 1..Len(UpperChars) : UpperChars[i] = c]
    ELSE c

\* str.lower
Lower(s) == [i \in 1..Len(s) |-> LowerChar(s[i])]

\* str.lstrip
RECURSIVE LStrip(_)
LStrip(s) ==
    IF s # <<>> /\ Head(s) \in Whitespace THEN LStrip(Tail(s)) ELSE s

\* str.rstrip
RECURSIVE RStrip(_)
RStrip(s) ==
    IF s # <<>> /\ s[Len(s)] \in Whitespace
    THEN RStrip(SubSeq(s, 1, Len(s) - 1))
    ELSE s

\* str.strip
Strip(s) == RStrip(LStrip(s))

\* s[:n]
Take(s, n) == SubSeq(s, 1, IF Len(s) < n THEN Len(s) ELSE n)

\* the positions of the character c in s
Positions(s, c) == {i \in 1..Len(s) : s[i] = c}

Min(S) == CHOOSE x \in S : \A y \in S : x <= y

Max(S) == CHOOSE x \in S : \A y \in S : x >= y

\* s.split(c)[0]: the text before the first c, all of s when there is none
BeforeFirst(s, c) ==
    IF Positions(s, c) = {} THEN s ELSE SubSeq(s, 1, Min(Positions(s, c)) - 1)

\* s.split(c)[-1]: the text after the last c, all of s when there is none
AfterLast(s, c) ==
    IF Positions(s, c) = {} THEN s ELSE SubSeq(s, Max(Positions(s, c)) + 1, Len(s))

\* s.rsplit(c, 1)[0]: the text before the last c, all of s when there is none
BeforeLast(s, c) ==
    IF Positions(s, c) = {} THEN s ELSE SubSeq(s, 1, Max(Positions(s, c)) - 1)

\* the concatenation of the sequences f[lo], ..., f[hi]
RECURSIVE ConcatRange(_, _, _)
ConcatRange(f, lo, hi) ==
    IF lo > hi THEN <<>>
    ELSE IF lo = hi THEN f[lo]
    ELSE LET mid == (lo + hi) \div 2
         IN ConcatRange(f, lo, mid) \o ConcatRange(f, mid + 1, hi)

\* ' '.join(s.split()): runs of whitespace become one space, none at the ends
Collapse(s) ==
    LET piece == [i \in 1..Len(s) |->
                     IF s[i] \in Whitespace THEN <<>>
                     ELSE IF i > 1 /\ s[i - 1] \in Whitespace
                             /\ \E j \in 1..(i - 1) : s[j] \notin Whitespace
                     THEN <<" ", s[i]>>
                     ELSE <<s[i]>>]
    IN ConcatRange(piece, 1, Len(s))

\* BeautifulSoup(html, "html.parser").get_text(): the text outside the tags;
\* a character is inside a tag from a "<" to the next ">"
GetText(html) ==
    LET opens == Positions(html, "<")
        closes == Positions(html, ">")
        inTag(i) == \E j \in opens :
                        j <= i /\ \A k \in closes : ~(j < k /\ k < i)
        piece == [i \in 1..Len(html) |->
                     IF inTag(i) THEN <<>> ELSE <<html[i]>>]
    IN IF opens = {} THEN html ELSE ConcatRange(piece, 1, Len(html))

\* s1 < s2 in Python's order of str (by code point, shorter prefix first)
CodePoints == <<"\t", "\n", " ", "0", "1", "2", "3", "4", "5", "6", "7", "8",
    "9", "A", "B", "C", "D", "E", "F", "G", "H", "I", "J", "K", "L", "M",
    "N", "O", "P", "Q", "R", "S", "T", "U", "V", "W", "X", "Y", "Z", "_",
    "a", "b", "c", "d", "e", "f", "g", "h", "i", "j", "k", "l", "m", "n",
    "o", "p", "q", "r", "s", "t", "u", "v", "w", "x", "y", "z">>

Ord(c) == CHOOSE i \in 1..Len(CodePoints) : CodePoints[i] = c

RECURSIVE StrLess(_, _)
StrLess(s1, s2) ==
    IF s2 = <<>> THEN FALSE
    ELSE IF s1 = <<>> THEN TRUE
    ELSE IF Head(s1) = Head(s2) THEN StrLess(Tail(s1), Tail(s2))
    ELSE Ord(Head(s1)) < Ord(Head(s2))

\* the decimal digits of a positive integer, as str(n) writes them
RECURSIVE Digits(_)
Digits(n) ==
    LET d == <<"0", "1", "2", "3", "4", "5", "6", "7", "8", "9">>
    IN IF n < 10 THEN <<d[n + 1]>> ELSE Digits(n \div 10) \o <<d[(n % 10) + 1]>>

\* sep.join(parts)
RECURSIVE Join(_, _)
Join(sep, parts) ==
    IF parts = <<>> THEN <<>>
    ELSE IF Len(parts) = 1 THEN parts[1]
    ELSE parts[1] \o sep \o Join(sep, Tail(parts))

\* the sequences over S of length at most n
SeqUpTo(S, n) == UNION {[1..k -> S] : k \in 0..n}

-----------------------------------------------------------------------------
(* Articles.  An article is a Python dict: a record whose DOMAIN is the    *)
(* set of keys present.                                                    *)

\* dict.get(key, default)
Get(d, key, default) == IF key \in DOMAIN d THEN d[key] ELSE default

\* the value None of an article's "published", and a timezone-aware datetime
None == [none |-> TRUE]

Aware(instant) == [instant |-> instant]

\* source tags: the keys of RSS_FEEDS and the tag of the scraped headlines,
\* and tags of the same shape that a new source could bring
SourceTags == <<
    <<"V", "a", "l", "o", "r">>,
    <<"G", "l", "o", "b", "o", "_", "P", "o", "l", "i", "t", "i", "c", "a">>,
    <<"E", "s", "t", "a", "d", "a", "o", "_", "E", "c", "o", "n", "o", "m", "i", "a">>,
    <<"N", "Y", "T", "_", "B", "u", "s", "i", "n", "e", "s", "s">>,
    <<"W", "S", "J", "_", "P", "O", "L", "I", "C", "Y">>,
    <<"F", "o", "l", "h", "a", "_", "p", "o", "l", "i", "t", "i", "c", "s">>,
    <<"G", "l", "o", "b", "o", "_", "E", "s", "p", "o", "r", "t", "e", "s">>,
    <<"E", "c", "o", "n", "o", "m", "i", "a", "_">>,
    <<"P", "o", "l", "i", "t", "i", "c", "a", "_", "G", "l", "o", "b", "o">>,
    <<"G", "1", "_", "R", "i", "o", "_", "e", "c", "o", "n", "o", "m", "i", "a">>,
    <<"G", "l", "o", "b", "o", "_", "P", "o", "l", "i_acute", "t", "i", "c", "a">>,
    <<>> >>

\* the suffixes categorize_articles recognises
EconomyKeys == {<<"e", "c", "o", "n", "o", "m", "i", "a">>, <<"b", "u", "s", "i", "n", "e", "s", "s">>}

PoliticsKeys == {<<"p", "o", "l", "i", "t", "i", "c", "a">>, <<"p", "o", "l", "i", "t", "i", "c", "s">>, <<"p", "o", "l", "i", "c", "y">>}

EmptyCategories == [Economia |-> <<>>, Politica |-> <<>>, Outros |-> <<>>]

\* one turn of the loop of categorize_articles, with the continue statements
\* left out: the article falls through to the last append as well
CategorizeStepFallThrough(cats, art) ==
    LET source == Get(art, "source", <<>>)
        topic_key == Lower(AfterLast(source, "_"))
        c1 == IF source # <<>> /\ Positions(source, "_") # {}
                 /\ topic_key \in EconomyKeys
              THEN [cats EXCEPT !.Economia = Append(@, art)] ELSE cats
        c2 == IF source # <<>> /\ Positions(source, "_") # {}
                 /\ topic_key \in PoliticsKeys
              THEN [c1 EXCEPT !.Politica = Append(@, art)] ELSE c1
    IN [c2 EXCEPT !.Outros = Append(@, art)]

\* one turn of the loop of categorize_articles, the suffix compared as
\* written (no lower())
CategorizeStepCaseSensitive(cats, art) ==
    LET source == Get(art, "source", <<>>)
        topic_key == AfterLast(source, "_")
    IN IF source # <<>> /\ Positions(source, "_") # {}
       THEN IF topic_key \in EconomyKeys
            THEN [cats EXCEPT !.Economia = Append(@, art)]
            ELSE IF topic_key \in PoliticsKeys
            THEN [cats EXCEPT !.Politica = Append(@, art)]
            ELSE [cats EXCEPT !.Outros = Append(@, art)]
       ELSE [cats EXCEPT !.Outros = Append(@, art)]

\* one turn of the loop of categorize_articles
CategorizeStep(cats, art) ==
    LET source == Get(art, "source", <<>>)
        topic_key == Lower(AfterLast(source, "_"))
    IN IF source # <<>> /\ Positions(source, "_") # {}
       THEN IF topic_key \in EconomyKeys
            THEN [cats EXCEPT !.Economia = Append(@, art)]
            ELSE IF topic_key \in PoliticsKeys
            THEN [cats EXCEPT !.Politica = Append(@, art)]
            ELSE [cats EXCEPT !.Outros = Append(@, art)]
       ELSE [cats EXCEPT !.Outros = Append(@, art)]

\* the loop of categorize_articles run from the last article to the first
RECURSIVE CategorizeFromBackwards(_, _)
CategorizeFromBackwards(cats, arts) ==
    IF arts = <<>> THEN cats
    ELSE CategorizeStep(CategorizeFromBackwards(cats, Tail(arts)), Head(arts))

\* categorize_articles(articles)
RECURSIVE CategorizeFrom(_, _)
CategorizeFrom(cats, arts) ==
    IF arts = <<>> THEN cats
    ELSE CategorizeFrom(CategorizeStep(cats, Head(arts)), Tail(arts))

categorize_articles(arts) == CategorizeFrom(EmptyCategories, arts)

-----------------------------------------------------------------------------
(* Values of the variables an operation does not use.                      *)

NewsIdle ==
    /\ articles = <<>>
    /\ categories = EmptyCategories
    /\ max_articles = 0
    /\ max_chars = 0
    /\ message = <<>>
    /\ now = 0
    /\ tz = 0
    /\ filtered = <<>>
    /\ refiltered = <<>>
    /\ reads = <<>>

MealIdle ==
    /\ page = <<>>
    /\ variant = ""
    /\ parsed = None
    /\ all_ingredients = <<>>
    /\ shopping = <<>>

DispatchIdle ==
    /\ send_message = FALSE
    /\ content_sid = FALSE
    /\ environ = <<>>
    /\ messages = <<>>
    /\ calls = <<>>
    /\ outcome = "running"

MenuIdle ==
    /\ blog = <<>>
    /\ urls = <<>>
    /\ menu = <<>>

ExtractIdle ==
    /\ sources = <<>>
    /\ fetched = <<>>
    /\ doc = <<>>
    /\ limit = 0
    /\ result = <<>>

SchedIdle ==
    /\ host_tz = 0
    /\ runs = <<>>
    /\ next_run = 0

RunIdle == DispatchIdle /\ MenuIdle /\ ExtractIdle /\ SchedIdle

-----------------------------------------------------------------------------
(* categorize_articles on every list of at most MaxArticles articles.      *)

MaxArticles == 3

\* the i-th article of a list, its source being SourceTags[k], or the key
\* "source" being absent when k = 0; id stands for the identity of the dict
TaggedArticle(i, k) ==
    IF k = 0
    THEN [id |-> i, title |-> <<"t">>, link |-> <<>>, summary |-> <<>>,
          published |-> None]
    ELSE [id |-> i, title |-> <<"t">>, link |-> <<>>, summary |-> <<>>,
          published |-> None, source |-> SourceTags[k]]

InitCateg ==
    /\ pc = "categorize"
    /\ \E ks \in SeqUpTo(0..Len(SourceTags), MaxArticles) :
           articles = [i \in 1..Len(ks) |-> TaggedArticle(i, ks[i])]
    /\ categories = EmptyCategories
    /\ max_articles = 0 /\ max_chars = 0 /\ message = <<>>
    /\ now = 0 /\ tz = 0 /\ filtered = <<>> /\ refiltered = <<>> /\ reads = <<>>
    /\ MealIdle
    /\ RunIdle

Categorize ==
    /\ pc = "categorize"
    /\ categories' = categorize_articles(articles)
    /\ pc' = "categorized"
    /\ UNCHANGED <<articles, max_articles, max_chars, message, now, tz,
                   filtered, refiltered, reads>>
    /\ UNCHANGED mealVars
    /\ UNCHANGED runVars

NextCateg == Categorize

SpecCateg == InitCateg /\ [][NextCateg]_vars

BucketNames == {"Economia", "Politica", "Outros"}

\* how many times the article art occurs in the bucket b
Occurrences(b, art) ==
    Cardinality({j \in 1..Len(categories[b]) : categories[b][j] = art})

InBucket(b, art) == Occurrences(b, art) >= 1

\* C5: categorize_articles is total: every article of the input, also one
\* whose source is missing or empty, is in exactly one of the buckets
\* Economia, Politica, Outros, once, and in no other.
C5_CategorizeTotal ==
    pc = "categorized" =>
        /\ DOMAIN categories = BucketNames
        /\ \A i \in 1..Len(articles) :
               /\ Cardinality({b \in BucketNames : InBucket(b, articles[i])}) = 1
               /\ \A b \in BucketNames : Occurrences(b, articles[i]) <= 1

C5_Witness ==
    /\ pc = "categorized"
    /\ Len(articles) = 3
    /\ "source" \notin DOMAIN articles[1]
    /\ "source" \in DOMAIN articles[2] /\ articles[2].source = <<>>
    /\ InBucket("Outros", articles[1]) /\ InBucket("Outros", articles[2])
    /\ InBucket("Economia", articles[3])

\* the text after the last underscore of a tag that has one
HasSuffix(source, suffix) ==
    \E k \in 1..Len(source) :
        /\ source[k] = "_"
        /\ \A j \in (k + 1)..Len(source) : source[j] # "_"
        /\ suffix = SubSeq(source, k + 1, Len(source))

\* C6: the bucket is decided by the part of the source tag after its last
\* underscore, compared case-insensitively: economia or business is the
\* economy bucket, politica, politics or policy the politics bucket, any
\* other suffix or a tag without underscore the uncategorized bucket;
\* "Globo_Politica" is in politics and "Valor" in uncategorized.
C6_CategorizeBySuffix ==
    pc = "categorized" =>
        \A i \in 1..Len(articles) :
            LET art == articles[i]
                source == IF "source" \in DOMAIN art THEN art.source ELSE <<>>
            IN /\ (\E suffix \in {SubSeq(source, k, Len(source)) :
                                      k \in 1..(Len(source) + 1)} :
                       /\ HasSuffix(source, suffix)
                       /\ Lower(suffix) \in EconomyKeys)
                   => InBucket("Economia", art)
               /\ (\E suffix \in {SubSeq(source, k, Len(source)) :
                                      k \in 1..(Len(source) + 1)} :
                       /\ HasSuffix(source, suffix)
                       /\ Lower(suffix) \in PoliticsKeys)
                   => InBucket("Politica", art)
               /\ (\A suffix \in {SubSeq(source, k, Len(source)) :
                                      k \in 1..(Len(source) + 1)} :
                       HasSuffix(source, suffix) =>
                           Lower(suffix) \notin EconomyKeys \cup PoliticsKeys)
                   => InBucket("Outros", art)
               /\ source = <<"G", "l", "o", "b", "o", "_", "P", "o", "l", "i", "t", "i", "c", "a">>
                   => InBucket("Politica", art)
               /\ source = <<"V", "a", "l", "o", "r">>
                   => InBucket("Outros", art)

C6_Witness ==
    /\ pc = "categorized"
    /\ \E i, j, k \in 1..Len(articles) :
           /\ Get(articles[i], "source", <<>>) = <<"G", "l", "o", "b", "o", "_", "P", "o", "l", "i", "t", "i", "c", "a">>
           /\ InBucket("Politica", articles[i])
           /\ Get(articles[j], "source", <<>>) = <<"V", "a", "l", "o", "r">>
           /\ InBucket("Outros", articles[j])
           /\ Get(articles[k], "source", <<>>) = <<"W", "S", "J", "_", "P", "O", "L", "I", "C", "Y">>
           /\ InBucket("Politica", articles[k])

-----------------------------------------------------------------------------
(* filter_today_articles, applied to a list and then to its own output,    *)
(* while the clock runs.                                                   *)

MaxFilterArticles == 3

\* the days of the clock's horizon
MaxDays == 2

HalfHoursPerDay == 24 * 2

\* times of day, in half hours after 00:00 UTC: 02:30, 03:00, 23:30
TimesOfDay == {5, 6, 47}

Instants == {d * HalfHoursPerDay + h : d \in 0..(MaxDays - 1), h \in TimesOfDay}

\* timezones: UTC-3 (America/Sao_Paulo), UTC, UTC+9
Timezones == {0 - 6, 0, 18}

\* datetime.astimezone(local_tz).date(), with the date taken in UTC whatever
\* the timezone
LocalDateNaive(instant, zone) == instant \div HalfHoursPerDay

\* datetime.astimezone(local_tz).date(): the calendar day, as a day number
LocalDate(instant, zone) == (instant + zone) \div HalfHoursPerDay

\* one turn of the loop of filter_today_articles that drops undated articles
FilterStepDropUndated(out, art, today, zone) ==
    LET published == Get(art, "published", None)
    IN IF published = None THEN out
       ELSE IF LocalDate(published.instant, zone) = today
       THEN Append(out, art)
       ELSE out

\* one turn of the loop of filter_today_articles
FilterStep(out, art, today, zone) ==
    LET published == Get(art, "published", None)
    IN IF published = None THEN Append(out, art)
       ELSE IF LocalDate(published.instant, zone) = today
       THEN Append(out, art)
       ELSE out

RECURSIVE FilterFrom(_, _, _, _)
FilterFrom(out, arts, today, zone) ==
    IF arts = <<>> THEN out
    ELSE FilterFrom(FilterStep(out, Head(arts), today, zone), Tail(arts),
                    today, zone)

\* filter_today_articles with today taken from the UTC date of the clock
filter_today_articles_utc_today(arts, zone, clock) ==
    LET today == LocalDateNaive(clock, zone)
    IN FilterFrom(<<>>, arts, today, zone)

\* filter_today_articles(articles, tz) called at the instant clock
filter_today_articles(arts, zone, clock) ==
    LET today == LocalDate(clock, zone)
    IN FilterFrom(<<>>, arts, today, zone)

\* the i-th article of a list, published at the instant t, or undated
DatedArticle(i, t) ==
    [id |-> i, title |-> <<"t">>, link |-> <<>>, summary |-> <<>>,
     published |-> t, source |-> <<"V", "a", "l", "o", "r">>]

\* the instants of publication: the times of day of the first day and 03:00
\* of the second
PublishedInstants == TimesOfDay \cup {HalfHoursPerDay + 6}

PublishedValues == {None} \cup {Aware(t) : t \in PublishedInstants}

InitFilter ==
    /\ pc = "filter"
    /\ \E ps \in SeqUpTo(PublishedValues, MaxFilterArticles) :
           articles = [i \in 1..Len(ps) |-> DatedArticle(i, ps[i])]
    /\ now \in Instants
    /\ tz \in Timezones
    /\ filtered = <<>> /\ refiltered = <<>> /\ reads = <<>>
    /\ categories = EmptyCategories
    /\ max_articles = 0 /\ max_chars = 0 /\ message = <<>>
    /\ MealIdle
    /\ RunIdle

\* time passes
Tick ==
    /\ pc \in {"filter", "filtered"}
    /\ \E t \in Instants : t > now /\ now' = t
    /\ UNCHANGED <<pc, articles, categories, max_articles, max_chars, message,
                   tz, filtered, refiltered, reads>>
    /\ UNCHANGED mealVars
    /\ UNCHANGED runVars

\* filtered = filter_today_articles(articles, tz)
FilterToday ==
    /\ pc = "filter"
    /\ filtered' = filter_today_articles(articles, tz, now)
    /\ reads' = Append(reads, now)
    /\ pc' = "filtered"
    /\ UNCHANGED <<articles, categories, max_articles, max_chars, message,
                   now, tz, refiltered>>
    /\ UNCHANGED mealVars
    /\ UNCHANGED runVars

\* refiltered = filter_today_articles(filtered, tz)
FilterAgain ==
    /\ pc = "filtered"
    /\ refiltered' = filter_today_articles(filtered, tz, now)
    /\ reads' = Append(reads, now)
    /\ pc' = "refiltered"
    /\ UNCHANGED <<articles, categories, max_articles, max_chars, message,
                   now, tz, filtered>>
    /\ UNCHANGED mealVars
    /\ UNCHANGED runVars

NextFilter == Tick \/ FilterToday \/ FilterAgain

SpecFilter == InitFilter /\ [][NextFilter]_vars

\* the instants a and b fall on the same calendar day of the timezone zone
SameLocalDay(a, b, zone) ==
    \E d \in (0 - 1)..(MaxDays + 1) :
        /\ d * HalfHoursPerDay <= a + zone
        /\ a + zone < (d + 1) * HalfHoursPerDay
        /\ d * HalfHoursPerDay <= b + zone
        /\ b + zone < (d + 1) * HalfHoursPerDay

IsIn(list, art) == \E j \in 1..Len(list) : list[j] = art

Undated(art) == art.published = None

\* C4 as stated: filter_today_articles applied to its own output yields the
\* same articles as applying it once.
C4_Idempotent ==
    pc = "refiltered" => refiltered = filtered

\* C4 amended: filter_today_articles applied to its own output yields the
\* same articles as applying it once when both applications read the clock
\* on the same calendar day of the timezone.
C4_IdempotentSameDay ==
    (pc = "refiltered" /\ SameLocalDay(reads[1], reads[2], tz))
        => refiltered = filtered

C4_Witness ==
    /\ pc = "refiltered"
    /\ reads[1] < reads[2]
    /\ SameLocalDay(reads[1], reads[2], tz)
    /\ reads[1] \div HalfHoursPerDay # reads[2] \div HalfHoursPerDay
    /\ \E i, j \in 1..Len(articles) :
           /\ ~Undated(articles[i]) /\ IsIn(filtered, articles[i])
           /\ ~Undated(articles[j]) /\ ~IsIn(filtered, articles[j])
    /\ refiltered = filtered

\* C8: a dated article is kept iff its published instant and the current
\* instant, both converted to the configured timezone, fall on the same
\* calendar date; an article published at 23:30 UTC of a day is compared,
\* with timezone UTC-3, by the local date of that same day (20:30 local).
C8_KeptIffSameLocalDate ==
    pc \in {"filtered", "refiltered"} =>
        \A i \in 1..Len(articles) :
            ~Undated(articles[i]) =>
                /\ IsIn(filtered, articles[i])
                       <=> SameLocalDay(articles[i].published.instant, reads[1], tz)
                /\ \A d \in 0..(MaxDays - 1) :
                       (tz = 0 - 6
                        /\ articles[i].published.instant = d * HalfHoursPerDay + 47)
                       => (IsIn(filtered, articles[i])
                               <=> /\ d * HalfHoursPerDay <= reads[1] - 6
                                   /\ reads[1] - 6 < (d + 1) * HalfHoursPerDay)

\* published 23:30 UTC of day 0, read at 02:30 UTC of day 1 (23:30 local of
\* day 0) in UTC-3: kept, while the two UTC dates differ; and an article
\* published at 03:00 UTC of day 1 (00:00 local of day 1) is dropped
C8_Witness ==
    /\ pc = "filtered"
    /\ tz = 0 - 6
    /\ reads = <<HalfHoursPerDay + 5>>
    /\ Len(articles) >= 2
    /\ articles[1].published = Aware(47)
    /\ articles[2].published = Aware(HalfHoursPerDay + 6)
    /\ filtered = <<articles[1]>>

\* C9: every article whose published value is None is retained, whatever
\* the current date and the timezone, and the undated articles keep their
\* input order.
C9_UndatedRetained ==
    pc \in {"filtered", "refiltered"} =>
        /\ \A i \in 1..Len(articles) :
               Undated(articles[i]) => IsIn(filtered, articles[i])
        /\ SelectSeq(filtered, Undated) = SelectSeq(articles, Undated)

C9_Witness ==
    /\ pc = "filtered"
    /\ Len(articles) = 3
    /\ Undated(articles[1]) /\ ~Undated(articles[2]) /\ Undated(articles[3])
    /\ filtered = <<articles[1], articles[3]>>

-----------------------------------------------------------------------------
(* The composers: prepare_news_message and build_headline_message.         *)

\* summaries longer than this are cut (news_agent.py)
SummaryLimit == 150

\* the defaults of prepare_news_message
DefaultMaxArticles == 10

DefaultMaxChars == 1500

\* the default of build_headline_message
DefaultMaxHeadlines == 5

\* strftime("%d/%m/%Y") of a day number; day 0 is 01/11/2026 and the clock's
\* horizon stays within that month
StrfDate(day) ==
    (IF day + 1 < 10 THEN <<"0">> ELSE <<>>) \o Digits(day + 1)
    \o <<"/", "1", "1", "/", "2", "0", "2", "6">>

\* header = f"Principais notícias de {today_str} (Economia & Política):"
NewsHeader(today_str) ==
    <<"P", "r", "i", "n", "c", "i", "p", "a", "i", "s", " ", "n",
      "o", "t", "i_acute", "c", "i", "a", "s", " ", "d", "e", " ">>
    \o today_str \o
    <<" ", "(", "E", "c", "o", "n", "o", "m", "i", "a", " ", "&",
      " ", "P", "o", "l", "i_acute", "t", "i", "c", "a", ")", ":">>

\* header = f"Principais manchetes de {category} em {today_str}:"
HeadlineHeader(category, today_str) ==
    <<"P", "r", "i", "n", "c", "i", "p", "a", "i", "s", " ", "m",
      "a", "n", "c", "h", "e", "t", "e", "s", " ", "d", "e", " ">>
    \o category \o <<" ", "e", "m", " ">> \o today_str \o <<":">>

\* the summary shown for an article: the text of the feed's summary cut at the
\* first period or to SummaryLimit characters
Truncated(art) ==
    LET summary_html == Get(art, "summary", <<>>)
        summary_text == Strip(GetText(summary_html))
        collapsed == Collapse(summary_text)
        first_sentence == Strip(BeforeFirst(collapsed, "."))
    IN IF summary_text = <<>> THEN <<>>
       ELSE IF Len(first_sentence) <= SummaryLimit THEN first_sentence
       ELSE BeforeLast(Take(first_sentence, SummaryLimit), " ") \o <<"ellipsis">>

\* the line prepare_news_message builds for the idx-th article
NewsLine(idx, art) ==
    LET title == Strip(Get(art, "title", <<>>))
        truncated == Truncated(art)
        source == Get(art, "source", <<>>)
        link == Get(art, "link", <<>>)
    IN Digits(idx) \o <<".", " ">> \o title
       \o (IF truncated # <<>> THEN <<" ", "en_dash", " ">> \o truncated ELSE <<>>)
       \o (IF source # <<>>
           THEN <<" ", "(", "F", "o", "n", "t", "e", ":", " ">> \o source \o <<")">>
           ELSE <<>>)
       \o (IF link # <<>>
           THEN <<"\n", "L", "i", "n", "k", ":", " ">> \o link
           ELSE <<>>)

\* the loop of prepare_news_message in which an article that does not fit is
\* skipped (continue) and the articles after it are still tried
RECURSIVE PrepareFromSkipping(_, _, _, _, _, _, _)
PrepareFromSkipping(lines, current_length, count, idx, arts, maxArticles, maxChars) ==
    IF idx > Len(arts) \/ count >= maxArticles THEN lines
    ELSE LET line == NewsLine(idx, arts[idx])
             tentative_length == current_length + Len(line) + 2
         IN IF tentative_length > maxChars
            THEN PrepareFromSkipping(lines, current_length, count, idx + 1,
                                     arts, maxArticles, maxChars)
            ELSE PrepareFromSkipping(Append(lines, line), tentative_length,
                                     count + 1, idx + 1, arts, maxArticles,
                                     maxChars)

\* the loop of prepare_news_message, from the idx-th article on
RECURSIVE PrepareFrom(_, _, _, _, _, _, _)
PrepareFrom(lines, current_length, count, idx, arts, maxArticles, maxChars) ==
    IF idx > Len(arts) \/ count >= maxArticles THEN lines
    ELSE LET line == NewsLine(idx, arts[idx])
             tentative_length == current_length + Len(line) + 2
         IN IF tentative_length > maxChars THEN lines
            ELSE PrepareFrom(Append(lines, line), tentative_length, count + 1,
                             idx + 1, arts, maxArticles, maxChars)

\* the list lines of prepare_news_message when it returns, for a given header
PrepareLines(header, arts, maxArticles, maxChars) ==
    PrepareFrom(<<header>>, Len(header) + 2, 0, 1, arts, maxArticles, maxChars)

\* prepare_news_message(articles, tz, max_articles, max_chars) at the instant
\* clock: the lines and the text returned
prepare_news_message(arts, zone, maxArticles, maxChars, clock) ==
    LET today_str == StrfDate(LocalDate(clock, zone))
        lines == PrepareLines(NewsHeader(today_str), arts, maxArticles, maxChars)
    IN [lines |-> lines, text |-> Join(<<"\n", "\n">>, lines)]

\* the line build_headline_message builds for the idx-th article
HeadlineLine(idx, art) ==
    LET title == Strip(Get(art, "title", <<>>))
        source == Get(art, "source", <<>>)
        link == Get(art, "link", <<>>)
    IN Digits(idx) \o <<".", " ">> \o title
       \o (IF source # <<>>
           THEN <<" ", "(", "F", "o", "n", "t", "e", ":", " ">> \o source \o <<")">>
           ELSE <<>>)
       \o (IF link # <<>>
           THEN <<"\n", "L", "i", "n", "k", ":", " ">> \o link
           ELSE <<>>)

\* articles[:max_articles]
Slice(arts, n) ==
    IF n >= 0 THEN Take(arts, n)
    ELSE SubSeq(arts, 1, IF Len(arts) + n < 0 THEN 0 ELSE Len(arts) + n)

\* build_headline_message(category, articles, tz, max_articles) at the
\* instant clock
build_headline_message(category, arts, zone, maxArticles, clock) ==
    LET today_str == StrfDate(LocalDate(clock, zone))
        header == HeadlineHeader(category, today_str)
        top == Slice(arts, maxArticles)
        lines == <<header>> \o [i \in 1..Len(top) |-> HeadlineLine(i, top[i])]
    IN [lines |-> lines, text |-> Join(<<"\n", "\n">>, lines)]

-----------------------------------------------------------------------------
(* The composers on every list of at most MaxComposeArticles articles      *)
(* drawn from a catalogue, every max_articles and every budget below.      *)

MaxComposeArticles == 3

\* the 1600-character limit of a Twilio WhatsApp message that the budgets of
\* daily_job are chosen to respect
TwilioLimit == 1600

\* the articles the lists are made of: a bare title that gives a line of 50
\* characters; a feed article with an HTML summary of two sentences; a
\* summary of 201 characters without a period; a title of 800 characters;
\* an article whose fields are all empty
Catalogue == <<
    [title |-> Rep("x", 47)],
    [title |-> <<" ", "P", "a", "d", " ">>,
     summary |-> <<"<", "p", ">", "S", "h", "o", "r", "t", " ", " ", "s", "u", "m", ".", " ", "M", "o", "r", "e", "<", "/", "p", ">">>,
     source |-> <<"G", "l", "o", "b", "o", "_", "P", "o", "l", "i", "t", "i", "c", "a">>,
     link |-> <<"h", "t", "t", "p", ":", "/", "/", "g", "/", "1">>,
     published |-> Aware(HalfHoursPerDay)],
    [title |-> <<"T">>,
     summary |-> Rep("w", 100) \o <<" ">> \o Rep("w", 100),
     source |-> <<"V", "a", "l", "o", "r">>,
     link |-> <<>>,
     published |-> None],
    [title |-> Rep("x", 800), link |-> <<>>],
    [title |-> <<>>, summary |-> <<>>, source |-> <<>>, link |-> <<>>] >>

\* the i-th article of a list: the k-th article of the catalogue; id stands
\* for the identity of the dict
CatalogueArticle(i, k) ==
    [f \in DOMAIN Catalogue[k] \cup {"id"} |->
        IF f = "id" THEN i ELSE Catalogue[k][f]]

MaxArticlesValues == {0, 1, 2, DefaultMaxHeadlines, DefaultMaxArticles}

Budgets == {0, 55, 56, 60, 109, 110, 116, 162, DefaultMaxChars}

Topics == {<<"P", "o", "l", "i", "t", "i", "c", "a">>, <<"E", "c", "o", "n", "o", "m", "i", "a">>}

InitCompose ==
    /\ pc = "compose"
    /\ \E ks \in SeqUpTo(1..Len(Catalogue), MaxComposeArticles) :
           articles = [i \in 1..Len(ks) |-> CatalogueArticle(i, ks[i])]
    /\ max_articles \in MaxArticlesValues
    /\ max_chars \in Budgets
    /\ message = <<>>
    /\ now = HalfHoursPerDay
    /\ tz = 0 - 6
    /\ categories = EmptyCategories
    /\ filtered = <<>> /\ refiltered = <<>> /\ reads = <<>>
    /\ MealIdle
    /\ RunIdle

\* message = prepare_news_message(articles, tz, max_articles, max_chars)
PrepareNewsMessage ==
    /\ pc = "compose"
    /\ message' = prepare_news_message(articles, tz, max_articles, max_chars, now)
    /\ pc' = "prepared"
    /\ UNCHANGED <<articles, categories, max_articles, max_chars, now, tz,
                   filtered, refiltered, reads>>
    /\ UNCHANGED mealVars
    /\ UNCHANGED runVars

\* msg = build_headline_message(topic, articles, tz, max_articles)
BuildHeadlineMessage ==
    /\ pc = "compose"
    /\ \E topic \in Topics :
           message' = build_headline_message(topic, articles, tz, max_articles, now)
    /\ pc' = "headlines"
    /\ UNCHANGED <<articles, categories, max_articles, max_chars, now, tz,
                   filtered, refiltered, reads>>
    /\ UNCHANGED mealVars
    /\ UNCHANGED runVars

NextCompose == PrepareNewsMessage \/ BuildHeadlineMessage

SpecCompose == InitCompose /\ [][NextCompose]_vars

\* C1: for every list of articles, every max_articles and every max_chars,
\* the text prepare_news_message returns has at most max_chars characters
\* (also when no item fits and when max_chars is smaller than the header).
C1_WithinMaxChars ==
    pc = "prepared" => Len(message.text) <= max_chars

\* C2: build_headline_message applies the length-budget-stop rule of the
\* detailed composer, so its output never exceeds the character budget
\* (the limit of a WhatsApp message that the budget stands for).
C2_HeadlineWithinBudget ==
    pc = "headlines" => Len(message.text) <= TwilioLimit

\* the running length prepare_news_message has after k item lines
RECURSIVE Running(_)
Running(k) ==
    IF k = 0 THEN Len(message.lines[1]) + 2
    ELSE Running(k - 1) + Len(NewsLine(k, articles[k])) + 2

\* the number of item lines of the composed message
Emitted == Len(message.lines) - 1

\* C7: prepare_news_message emits exactly the longest prefix of the articles
\* that respects both limits: item k is emitted iff all earlier items were
\* emitted, fewer than max_articles items were emitted before it, and running
\* length + len(line) + 2 is at most max_chars; after the first item that
\* does not fit no later item is emitted.  With max_chars = 100, a header of
\* 40 characters and item lines of 50 characters the output is the header
\* and exactly one item line.
C7_LongestPrefix ==
    /\ pc = "prepared" =>
           /\ Emitted \in 0..Len(articles)
           /\ \A k \in 1..Len(articles) :
                  (k <= Emitted) <=>
                      /\ k - 1 <= Emitted
                      /\ k - 1 < max_articles
                      /\ \A j \in 1..k :
                             /\ j - 1 < max_articles
                             /\ Running(j - 1) + Len(NewsLine(j, articles[j])) + 2
                                    <= max_chars
           /\ \A k \in 1..Emitted :
                  message.lines[k + 1] = NewsLine(k, articles[k])
           /\ message.text = Join(<<"\n", "\n">>, message.lines)
    /\ LET item == [title |-> Rep("x", 47)]
           lines == PrepareLines(Rep("h", 40), <<item, item>>,
                                 DefaultMaxArticles, 100)
       IN /\ Len(NewsLine(1, item)) = 50 /\ Len(NewsLine(2, item)) = 50
          /\ lines = <<Rep("h", 40), NewsLine(1, item)>>

\* the first article fits, the second does not, the third would have fitted
C7_Witness ==
    /\ pc = "prepared"
    /\ Len(articles) = 3
    /\ max_articles >= 3
    /\ Emitted = 1
    /\ Running(1) + Len(NewsLine(2, articles[2])) + 2 > max_chars
    /\ Running(1) + Len(NewsLine(3, articles[3])) + 2 <= max_chars

-----------------------------------------------------------------------------
(* The shopping list of build_menu: the ingredient strings of the recipes, *)
(* deduplicated and sorted.                                                *)

MaxIngredients == 5

\* the ingredient strings the lists are made of
IngredientTexts == {
    <<"a">>,
    <<"a", " ">>,
    <<"A">>,
    <<" ", "b">>,
    <<"c">>,
    <<"d">>,
    <<"\t">>}

\* the dict normalized of build_menu as the list of its (key, value) pairs in
\* insertion order, after the items of a list were entered into it
HasKey(normalized, key) == \E i \in 1..Len(normalized) : normalized[i].key = key

\* the loop of build_menu's deduplication, the key taken without strip()
RECURSIVE NormalizeFromUnstripped(_, _)
NormalizeFromUnstripped(normalized, items) ==
    IF items = <<>> THEN normalized
    ELSE LET item == Head(items)
             key == Lower(item)
         IN NormalizeFromUnstripped(
                IF HasKey(normalized, key) THEN normalized
                ELSE Append(normalized, [key |-> key, value |-> Strip(item)]),
                Tail(items))

\* the loop of build_menu's deduplication
RECURSIVE NormalizeFrom(_, _)
NormalizeFrom(normalized, items) ==
    IF items = <<>> THEN normalized
    ELSE LET item == Head(items)
             key == Lower(Strip(item))
         IN NormalizeFrom(
                IF HasKey(normalized, key) THEN normalized
                ELSE Append(normalized, [key |-> key, value |-> Strip(item)]),
                Tail(items))

\* normalized.values()
Values(normalized) == [i \in 1..Len(normalized) |-> normalized[i].value]

\* sorted(values, key=lambda s: s.lower()): a stable sort
RECURSIVE SortedByLower(_)
SortedByLower(values) ==
    IF values = <<>> THEN <<>>
    ELSE LET rest == SortedByLower(SubSeq(values, 1, Len(values) - 1))
             x == values[Len(values)]
             \* x goes after every element that is not greater than it
             n == Cardinality({i \in 1..Len(rest) :
                                   ~StrLess(Lower(x), Lower(rest[i]))})
         IN SubSeq(rest, 1, n) \o <<x>> \o SubSeq(rest, n + 1, Len(rest))

\* unique_ingredients of build_menu, from all_ingredients
unique_ingredients(items) == SortedByLower(Values(NormalizeFrom(<<>>, items)))

InitShopping ==
    /\ pc = "dedupe"
    /\ all_ingredients \in SeqUpTo(IngredientTexts, MaxIngredients)
    /\ shopping = <<>>
    /\ page = <<>> /\ variant = "" /\ parsed = <<>>
    /\ NewsIdle
    /\ RunIdle

\* the deduplication and the sort that end build_menu
Dedupe ==
    /\ pc = "dedupe"
    /\ shopping' = unique_ingredients(all_ingredients)
    /\ pc' = "deduped"
    /\ UNCHANGED <<page, variant, parsed, all_ingredients>>
    /\ UNCHANGED newsVars
    /\ UNCHANGED runVars

NextShopping == Dedupe

SpecShopping == InitShopping /\ [][NextShopping]_vars

\* the trimmed, lower-cased form of an ingredient string
KeyOf(item) == Lower(Strip(item))

-----------------------------------------------------------------------------
(* parse_recipe.  A page is what requests.get(url) answers:                *)
(*   ok      FALSE when the request or raise_for_status() raises           *)
(*   title   the text of the <title> element, when the key is present      *)
(*   script  the element with id js_recipe_schema: "absent" (no element,   *)
(*           or no string in it), "invalid" (json.loads raises             *)
(*           JSONDecodeError), "value" (valid JSON that is not an object), *)
(*           or "object" with the dict data that json.loads returns        *)
(*   body    the headings (h2..h5), the lists (ul) and the list items      *)
(*           outside any ul, in document order                             *)

\* the copies of parse_recipe: meal_planner.py line 105, meal_planner.py
\* line 341 ("meal_planner_whatsapp (1).py"), unnamed/part_000 line 108
Variants == {"meal_planner", "meal_planner_whatsapp_1", "part_000"}

Heading(text) == [tag |-> "h", text |-> text]

List(items) == [tag |-> "ul", items |-> items]

Item(text) == [tag |-> "li", text |-> text]

\* sub in s
Contains(s, sub) ==
    \E i \in 1..(Len(s) - Len(sub) + 1) : SubSeq(s, i, i + Len(sub) - 1) = sub

Ingrediente == <<"I", "n", "g", "r", "e", "d", "i", "e", "n", "t", "e">>

\* tag.get_text(strip=True) of an element that holds one text
GetTextStrip(text) == Strip(text)

\* a Python list object, as opposed to None
PyList(items) == [list |-> items]

\* bool(x) for the values ingredients can take: a list or None
Truthy(x) == x # None /\ x # PyList(<<>>)

\* h.find_next('ul'): the position of the first list after position i, or 0
FindNextUl(body, i) ==
    LET later == {j \in (i + 1)..Len(body) : body[j].tag = "ul"}
    IN IF later = {} THEN 0 ELSE Min(later)

\* the texts a copy of parse_recipe takes from the items of one list
ListTexts(items, v) ==
    IF v = "meal_planner_whatsapp_1"
    THEN [i \in 1..Len(items) |-> GetTextStrip(items[i])]
    ELSE SelectSeq([i \in 1..Len(items) |-> GetTextStrip(items[i])],
                   LAMBDA text : text # <<>>)

\* what the heading-anchored path appends: for every heading whose text
\* contains "Ingrediente", the texts of the first list after it
HeadingTexts(body, v) ==
    LET found == [i \in 1..Len(body) |->
                     IF body[i].tag = "h" /\ Contains(body[i].text, Ingrediente)
                        /\ FindNextUl(body, i) # 0
                     THEN ListTexts(body[FindNextUl(body, i)].items, v)
                     ELSE <<>>]
    IN ConcatRange(found, 1, Len(body))

\* what the last-resort path appends: the text of every li of the document
\* that is not empty
AllItemTexts(body) ==
    LET found == [i \in 1..Len(body) |->
                     IF body[i].tag = "ul"
                     THEN SelectSeq([k \in 1..Len(body[i].items) |->
                                        GetTextStrip(body[i].items[k])],
                                    LAMBDA text : text # <<>>)
                     ELSE IF body[i].tag = "li" /\ GetTextStrip(body[i].text) # <<>>
                     THEN <<GetTextStrip(body[i].text)>>
                     ELSE <<>>]
    IN ConcatRange(found, 1, Len(body))

Raised == [raised |-> TRUE]

\* whether the heading-anchored path calls ingredients.append or
\* ingredients.extend: the copy of line 341 extends with the texts of every
\* list it finds, were there none; the others append text by text
HeadingCalls(body, v) ==
    IF v = "meal_planner_whatsapp_1"
    THEN \E i \in 1..Len(body) :
             /\ body[i].tag = "h" /\ Contains(body[i].text, Ingrediente)
             /\ FindNextUl(body, i) # 0
    ELSE HeadingTexts(body, v) # <<>>

\* the fallbacks with the last-resort scan run whenever the structured path
\* gave nothing, whatever the heading-anchored path found
FallbacksMixed(pg, v, recipe_name, ingredients) ==
    IF Truthy(ingredients)
    THEN [raised |-> FALSE, name |-> recipe_name, ingredients |-> ingredients,
          paths |-> <<"structured">>]
    ELSE LET heading == HeadingTexts(pg.body, v)
             items == AllItemTexts(pg.body)
         IN IF (HeadingCalls(pg.body, v) \/ items # <<>>) /\ ingredients = None
            THEN Raised
            ELSE [raised |-> FALSE, name |-> recipe_name,
                  ingredients |-> IF ingredients = None THEN None
                                  ELSE PyList(ingredients.list \o heading \o items),
                  paths |-> <<"structured", "heading", "last_resort">>]

\* the fallbacks of parse_recipe, from the ingredients of the structured
\* path; ingredients.append raises AttributeError when ingredients is None
Fallbacks(pg, v, recipe_name, ingredients) ==
    IF Truthy(ingredients)
    THEN [raised |-> FALSE, name |-> recipe_name, ingredients |-> ingredients,
          paths |-> <<"structured">>]
    ELSE LET heading == HeadingTexts(pg.body, v)
         IN IF HeadingCalls(pg.body, v) /\ ingredients = None THEN Raised
            ELSE IF heading # <<>>
            THEN [raised |-> FALSE, name |-> recipe_name,
                  ingredients |-> PyList(ingredients.list \o heading),
                  paths |-> <<"structured", "heading">>]
            ELSE LET items == AllItemTexts(pg.body)
                 IN IF items # <<>> /\ ingredients = None THEN Raised
                    ELSE [raised |-> FALSE, name |-> recipe_name,
                          ingredients |-> IF ingredients = None THEN None
                                          ELSE PyList(ingredients.list \o items),
                          paths |-> <<"structured", "heading", "last_resort">>]

\* parse_recipe(url) in the copy v, the request answering pg: either it
\* raises, or it returns recipe_name and ingredients; paths lists the
\* extraction paths that ran
parse_recipe(url, pg, v) ==
    IF ~pg.ok THEN Raised
    ELSE LET title_name == IF "title" \in DOMAIN pg THEN GetTextStrip(pg.title)
                           ELSE url
         IN IF pg.script.kind = "absent"
            THEN Fallbacks(pg, v, title_name, PyList(<<>>))
            ELSE IF pg.script.kind = "invalid"
            THEN Fallbacks(pg, v, title_name, PyList(<<>>))
            ELSE IF pg.script.kind = "value"
            THEN Raised
            ELSE Fallbacks(pg, v,
                           Get(pg.script.data, "name", title_name),
                           Get(pg.script.data, "recipeIngredient", PyList(<<>>)))

-----------------------------------------------------------------------------
(* parse_recipe on every page with at most MaxBody elements.               *)

MaxBody == 3

\* the elements a body is made of
Elements == {
    Heading(<<"I", "n", "g", "r", "e", "d", "i", "e", "n", "t", "e", "s">>),
    Heading(<<"M", "o", "d", "o">>),
    List(<<<<"a">>, <<" ", "b">>>>),
    List(<<<<"c">>>>),
    List(<<<<"\t">>>>),
    List(<<>>),
    Item(<<"d">>)}

\* what the element with id js_recipe_schema can hold
Scripts == {
    [kind |-> "absent"],
    [kind |-> "invalid"],
    [kind |-> "value"],
    [kind |-> "object", data |-> [other |-> <<>>]],
    [kind |-> "object",
     data |-> [name |-> <<"N">>, recipeIngredient |-> PyList(<<<<"x">>, <<"y", " ">>>>)]],
    [kind |-> "object", data |-> [recipeIngredient |-> PyList(<<>>)]],
    [kind |-> "object", data |-> [name |-> <<"N">>, recipeIngredient |-> None]]}

Pages ==
    {[ok |-> o, title |-> <<" ", "R">>, script |-> sc, body |-> b] :
        o \in {TRUE}, sc \in Scripts, b \in SeqUpTo(Elements, MaxBody)}
    \cup {[ok |-> o, script |-> sc, body |-> b] :
        o \in BOOLEAN, sc \in {[kind |-> "absent"]},
        b \in SeqUpTo(Elements, MaxBody)}

RecipeUrl == <<"u">>

InitParse ==
    /\ pc = "parse"
    /\ page \in Pages
    /\ variant \in Variants
    /\ parsed = None
    /\ all_ingredients = <<>> /\ shopping = <<>>
    /\ NewsIdle
    /\ RunIdle

\* name, ingredients = parse_recipe(url)
ParseRecipe ==
    /\ pc = "parse"
    /\ parsed' = parse_recipe(RecipeUrl, page, variant)
    /\ pc' = "parsed"
    /\ UNCHANGED <<page, variant, all_ingredients, shopping>>
    /\ UNCHANGED newsVars
    /\ UNCHANGED runVars

NextParse == ParseRecipe

SpecParse == InitParse /\ [][NextParse]_vars

\* what the structured JSON block of the page gives as ingredients
StructuredYield ==
    IF page.script.kind = "object" /\ "recipeIngredient" \in DOMAIN page.script.data
    THEN page.script.data.recipeIngredient
    ELSE PyList(<<>>)

Ran(path) == \E i \in 1..Len(parsed.paths) : parsed.paths[i] = path

\* C10: parse_recipe tries its three extraction paths in strict order
\* (structured JSON block, heading-anchored list, every list item of the
\* page) and stops at the first one that yields a non-empty ingredient
\* list: a later path runs only if all earlier ones produced nothing, and
\* its results are never mixed with those of an earlier path.
C10_FallbackOrder ==
    (pc = "parsed" /\ ~parsed.raised) =>
        LET heading == HeadingTexts(page.body, variant)
            items == AllItemTexts(page.body)
        IN /\ parsed.paths \in {<<"structured">>,
                                <<"structured", "heading">>,
                                <<"structured", "heading", "last_resort">>}
           /\ Ran("heading") <=> StructuredYield \in {PyList(<<>>), None}
           /\ Ran("last_resort") <=>
                  (StructuredYield \in {PyList(<<>>), None} /\ heading = <<>>)
           /\ ~Ran("heading") => parsed.ingredients = StructuredYield
           /\ (Ran("heading") /\ ~Ran("last_resort")) =>
                  parsed.ingredients = PyList(heading)
           /\ Ran("last_resort") =>
                  /\ parsed.ingredients # None => parsed.ingredients = PyList(items)
                  /\ parsed.ingredients = None => items = <<>>

\* the heading-anchored path gave the result although the page holds list
\* items that only the last-resort scan would collect
C10_Witness ==
    /\ pc = "parsed" /\ ~parsed.raised
    /\ page.script.kind = "invalid"
    /\ parsed.paths = <<"structured", "heading">>
    /\ parsed.ingredients = PyList(<<<<"c">>>>)
    /\ AllItemTexts(page.body) = <<<<"a">>, <<"b">>, <<"c">>>>

\* C11: whatever the embedded structured-data script holds (invalid JSON,
\* valid JSON that is not an object, an object without the expected
\* fields), parse_recipe raises no error because of it: when the page was
\* fetched, parse_recipe returns.
C11_NoErrorFromScript ==
    (pc = "parsed" /\ page.ok) => ~parsed.raised

-----------------------------------------------------------------------------
(* job of the meal planner: build_menu, compose the message, send it.      *)
(* A URL is a sequence of parts: an origin, a path prefix, a slug.         *)

\* the anchors of the blog post the model reads
MaxAnchors == 10

\* if len(urls) < 7 / random.sample(urls, 7)
RequiredRecipes == 7

Panelinha == "https://www.panelinha.com.br"

\* the anchors of the blog post, in page order: recipe links with and without
\* the domain, a recipe linked twice, links that are no recipe links
Hrefs == <<
    <<Panelinha, "/receita/", "r1">>,
    <<"/receita/", "r1">>,
    <<"/blog/", "b1">>,
    <<"/receita/", "r2">>,
    <<Panelinha, "/receita/", "r3">>,
    <<"/receita/", "r4">>,
    <<"/receita/", "r5">>,
    <<"https://panelinha.com.br", "/receita/", "r9">>,
    <<"/receita/", "r6">>,
    <<Panelinha, "/receita/", "r7">>,
    <<"/receita/", "r8">>,
    <<"/receita/", "r2">>>>

\* s.startswith(prefix)
StartsWith(s, prefix) ==
    Len(s) >= Len(prefix) /\ SubSeq(s, 1, Len(prefix)) = prefix

\* list(dict.fromkeys(items)): the first occurrences, in order
RECURSIVE FromKeys(_, _)
FromKeys(seen, items) ==
    IF items = <<>> THEN seen
    ELSE FromKeys(IF \E i \in 1..Len(seen) : seen[i] = Head(items)
                  THEN seen ELSE Append(seen, Head(items)),
                  Tail(items))

\* the loop of get_recipe_urls over the anchors
RecipeHrefs(anchors) ==
    LET found == [i \in 1..Len(anchors) |->
                     IF StartsWith(anchors[i], <<Panelinha, "/receita/">>)
                     THEN <<anchors[i]>>
                     ELSE IF StartsWith(anchors[i], <<"/receita/">>)
                     THEN <<<<Panelinha>> \o anchors[i]>>
                     ELSE <<>>]
    IN ConcatRange(found, 1, Len(anchors))

\* get_recipe_urls() when the blog answers b; it raises on an HTTP error
get_recipe_urls(b) ==
    IF ~b.ok THEN Raised
    ELSE [raised |-> FALSE, urls |-> FromKeys(<<>>, RecipeHrefs(b.anchors))]

\* random.sample(list, k): every list of k distinct elements of list, in
\* every order
Sample(list, k) ==
    LET pool == {list[i] : i \in 1..Len(list)}
        Listed(chosen) == SelectSeq(list, LAMBDA x : x \in chosen)
    IN UNION {{[i \in 1..k |-> p[Listed(chosen)[i]]] : p \in Permutations(chosen)} :
                  chosen \in {c \in SUBSET pool : Cardinality(c) = k}}

\* what requests.get(url) answers for a recipe: the page of r3 is missing,
\* the page of r4 has no structured data and a list under its heading
RecipePage(url) ==
    IF url[3] = "r3"
    THEN [ok |-> FALSE, script |-> [kind |-> "absent"], body |-> <<>>]
    ELSE IF url[3] = "r4"
    THEN [ok |-> TRUE, script |-> [kind |-> "absent"],
          body |-> <<Heading(Ingrediente), List(<<<<"a">>, <<"B">>>>)>>]
    ELSE [ok |-> TRUE, title |-> <<"R">>,
          script |-> [kind |-> "object",
                      data |-> [name |-> <<"N">>,
                                recipeIngredient |-> PyList(<<<<"b", " ">>, <<"c">>>>)]],
          body |-> <<>>]

\* the loop of build_menu over the selected URLs: menu and all_ingredients;
\* a recipe whose parse_recipe raises is skipped, and extend raises
\* TypeError when ingredients is None
RECURSIVE MenuFrom(_, _, _, _)
MenuFrom(menu_, ingredients_, selected, v) ==
    IF selected = <<>>
    THEN [raised |-> FALSE, menu |-> menu_, all_ingredients |-> ingredients_]
    ELSE LET url == Head(selected)
             recipe == parse_recipe(url, RecipePage(url), v)
         IN IF recipe.raised
            THEN MenuFrom(menu_, ingredients_, Tail(selected), v)
            ELSE IF recipe.ingredients = None THEN Raised
            ELSE MenuFrom(Append(menu_, <<recipe.name, url>>),
                          ingredients_ \o recipe.ingredients.list,
                          Tail(selected), v)

\* build_menu() without the check on the number of URLs
build_menu_unchecked(b, v, selected) ==
    LET got == get_recipe_urls(b)
    IN IF got.raised THEN Raised
       ELSE LET built == MenuFrom(<<>>, <<>>, selected, v)
            IN IF built.raised THEN Raised
               ELSE [raised |-> FALSE, urls |-> got.urls, menu |-> built.menu,
                     all_ingredients |-> built.all_ingredients,
                     ingredients |-> unique_ingredients(built.all_ingredients)]

\* build_menu() when the blog answers b and random.sample returns selected
build_menu(b, v, selected) ==
    LET got == get_recipe_urls(b)
    IN IF got.raised THEN Raised
       ELSE IF Len(got.urls) < RequiredRecipes THEN Raised
       ELSE LET built == MenuFrom(<<>>, <<>>, selected, v)
            IN IF built.raised THEN Raised
               ELSE [raised |-> FALSE, urls |-> got.urls, menu |-> built.menu,
                     all_ingredients |-> built.all_ingredients,
                     ingredients |-> unique_ingredients(built.all_ingredients)]

dias_semana == <<"Segunda-feira", "Terca-feira", "Quarta-feira", "Quinta-feira",
                 "Sexta-feira", "Sabado", "Domingo">>

\* compose_email / compose_message: the list linhas the text is joined from
compose_message(menu_, ingredients) ==
    <<<<"Ola! Aqui esta o cardapio semanal sugerido:", "\n">>>>
    \o [idx \in 1..Len(menu_) |->
           <<dias_semana[((idx - 1) % Len(dias_semana)) + 1], ": ",
             menu_[idx][1], " - ", menu_[idx][2]>>]
    \o <<<<"\n", "Lista de compras:">>>>
    \o [i \in 1..Len(ingredients) |-> <<"- ", ingredients[i]>>]

\* the lists random.sample can return for the URLs of the blog
Selections(b) ==
    LET got == get_recipe_urls(b)
    IN IF got.raised \/ Len(got.urls) < RequiredRecipes THEN {<<>>}
       ELSE Sample(got.urls, RequiredRecipes)

InitJob ==
    /\ pc = "job"
    /\ \E n \in 0..MaxAnchors, ok \in BOOLEAN :
           blog = [ok |-> ok, anchors |-> SubSeq(Hrefs, 1, n)]
    /\ variant = "meal_planner"
    /\ urls = <<>> /\ menu = <<>>
    /\ page = <<>> /\ parsed = None /\ all_ingredients = <<>> /\ shopping = <<>>
    /\ NewsIdle /\ DispatchIdle /\ ExtractIdle /\ SchedIdle

\* job(): menu, ingredients = build_menu(); the text is composed
JobBuild ==
    /\ pc = "job"
    /\ \E built \in {build_menu(blog, variant, selected) :
                          selected \in Selections(blog)} :
              IF built.raised
              THEN /\ outcome' = "raised"
                   /\ pc' = "done"
                   /\ UNCHANGED <<urls, menu, all_ingredients, shopping, messages>>
              ELSE /\ urls' = built.urls
                   /\ menu' = built.menu
                   /\ all_ingredients' = built.all_ingredients
                   /\ shopping' = built.ingredients
                   /\ messages' = <<compose_message(built.menu, built.ingredients)>>
                   /\ pc' = "send"
                   /\ UNCHANGED outcome
    /\ UNCHANGED <<blog, page, variant, parsed, send_message, content_sid, environ, calls>>
    /\ UNCHANGED <<newsVars, extractVars, schedVars>>

\* job(): send_email / send_whatsapp inside try, the error is printed
JobSend ==
    /\ pc = "send"
    /\ \E ok \in BOOLEAN :
           calls' = Append(calls, [idx |-> 1, kind |-> "freeform", topic |-> "menu",
                                   message |-> 1, ok |-> ok])
    /\ outcome' = "returned"
    /\ pc' = "done"
    /\ UNCHANGED <<send_message, content_sid, environ, messages>>
    /\ UNCHANGED <<newsVars, mealVars, menuVars, extractVars, schedVars>>

NextJob == JobBuild \/ JobSend

SpecJob == InitJob /\ [][NextJob]_vars

\* the distinct recipe URLs of the blog post, counted apart from the code
DistinctRecipes ==
    {a[Len(a)] : a \in {blog.anchors[i] : i \in 1..Len(blog.anchors)}
                       \cap {Hrefs[i] : i \in {1, 2, 4, 5, 6, 7, 9, 10, 11, 12}}}

\* C12: when fewer than 7 distinct recipe URLs are found, build_menu fails,
\* the failure reaches the caller of job, and no message is composed or
\* handed to the dispatcher in that run.
C12_TooFewRecipesIsFatal ==
    (blog.ok /\ Cardinality(DistinctRecipes) < RequiredRecipes) =>
        /\ pc \in {"job", "done"}
        /\ messages = <<>>
        /\ calls = <<>>
        /\ pc = "done" => outcome = "raised"

\* the blog post has 7 recipe links but only 6 distinct recipes, and the job
\* ended with the error
C12_Witness ==
    /\ pc = "done" /\ outcome = "raised"
    /\ blog.ok
    /\ Len(RecipeHrefs(blog.anchors)) = RequiredRecipes
    /\ Cardinality(DistinctRecipes) = RequiredRecipes - 1
    /\ messages = <<>> /\ calls = <<>>

-----------------------------------------------------------------------------
(* daily_job in its three copies: news_agent.py (one headline message per  *)
(* topic), news_agent (3).py (one detailed message) and news_agent (5).py  *)
(* (fixed headlines, sends outside any try block).                         *)

MaxDailyArticles == 2

DailyVariants == {"news_agent", "news_agent_3", "news_agent_5"}

\* pytz.timezone("America/Sao_Paulo"), as an offset
SaoPaulo == 0 - 6

\* the headlines daily_job of news_agent (5).py holds
FixedPolitica == <<
        <<"C", "o", "n", "g", "r", "e", "s", "s", "o", " ", "a", "p", "r",
        "o", "v", "a", " ", "n", "o", "v", "o", " ", "m", "a", "r", "c",
        "o", " ", "f", "i", "s", "c", "a", "l">>,
        <<"M", "i", "n", "i", "s", "t", "r", "o", " ", "d", "e", "f", "e",
        "n", "d", "e", " ", "r", "e", "f", "o", "r", "m", "a", " ", "t",
        "r", "i", "b", "u", "t", "a_acute", "r", "i", "a", " ", "a", "i",
        "n", "d", "a", " ", "e", "s", "t", "e", " ", "a", "n", "o">>,
        <<"E", "l", "e", "i", "c_cedilla", "o_tilde", "e", "s", " ", "m",
        "u", "n", "i", "c", "i", "p", "a", "i", "s", " ", "g", "a", "n",
        "h", "a", "m", " ", "f", "o", "r", "c_cedilla", "a", " ", "n", "o",
        "s", " ", "b", "a", "s", "t", "i", "d", "o", "r", "e", "s", " ",
        "d", "o", "s", " ", "p", "a", "r", "t", "i", "d", "o", "s">>,
        <<"C", "o", "m", "i", "s", "s", "a_tilde", "o", " ", "d", "i", "s",
        "c", "u", "t", "e", " ", "r", "e", "g", "u", "l", "a", "c_cedilla",
        "a_tilde", "o", " ", "d", "a", "s", " ", "r", "e", "d", "e", "s",
        " ", "s", "o", "c", "i", "a", "i", "s">>,
        <<"P", "r", "e", "s", "i", "d", "e", "n", "t", "e", " ", "s", "a",
        "n", "c", "i", "o", "n", "a", " ", "l", "e", "i", " ", "a", "n",
        "t", "i", "c", "o", "r", "r", "u", "p", "c_cedilla", "a_tilde",
        "o">>>>

FixedEconomia == <<
        <<"I", "n", "f", "l", "a", "c_cedilla", "a_tilde", "o", " ", "f",
        "e", "c", "h", "a", " ", "j", "u", "l", "h", "o", " ", "c", "o",
        "m", " ", "a", "l", "t", "a", " ", "d", "e", " ", "0", ",", "2",
        "%">>,
        <<"C", "o", "p", "o", "m", " ", "m", "a", "n", "t", "e_acute", "m",
        " ", "t", "a", "x", "a", " ", "S", "e", "l", "i", "c", " ", "e",
        "m", " ", "1", "0", ",", "5", "%">>,
        <<"M", "e", "r", "c", "a", "d", "o", " ", "r", "e", "v", "e_circ",
        " ", "c", "r", "e", "s", "c", "i", "m", "e", "n", "t", "o", " ",
        "d", "o", " ", "P", "I", "B", " ", "p", "a", "r", "a", " ", "c",
        "i", "m", "a">>,
        <<"D", "o_acute", "l", "a", "r", " ", "f", "e", "c", "h", "a", " ",
        "e", "m", " ", "q", "u", "e", "d", "a", " ", "a", "p", "o_acute",
        "s", " ", "d", "a", "d", "o", "s", " ", "p", "o", "s", "i", "t",
        "i", "v", "o", "s", " ", "d", "o", "s", " ", "E", "U", "A">>,
        <<"D", "e", "s", "e", "m", "p", "r", "e", "g", "o", " ", "a", "t",
        "i", "n", "g", "e", " ", "m", "e", "n", "o", "r", " ", "n",
        "i_acute", "v", "e", "l", " ", "d", "e", "s", "d", "e", " ", "2",
        "0", "1", "5">>>>

\* msg[:730] + ellipsis if len(msg) > 750 else msg
CutLimit == 750

CutAt == 730

\* build_headline_message of news_agent (5).py
build_headline_message_5(category, headlines, maxArticles) ==
    LET top_articles == Slice(headlines, maxArticles)
        formatted == Join(<<"\n">>,
                          [i \in 1..Len(top_articles) |->
                              <<"bullet", " ">> \o top_articles[i]])
    IN <<"newspaper", "vs16", " ">> \o category \o <<" ", "em_dash", " ">>
       \o <<"P", "r", "i", "n", "c", "i", "p", "a", "i", "s", " ", "m",
          "a", "n", "c", "h", "e", "t", "e", "s", ":", "\n", "\n">> \o formatted

Cut(msg) == IF Len(msg) > CutLimit THEN Take(msg, CutAt) \o <<"ellipsis">> ELSE msg

\* the messages daily_job prepares, as (topic, text) pairs
RECURSIVE HeadlineMessagesFrom(_, _, _)
HeadlineMessagesFrom(topics, cats, clock) ==
    IF topics = <<>> THEN <<>>
    ELSE LET topic == Head(topics)
             topic_articles == cats[topic]
         IN (IF topic_articles = <<>> THEN <<>>
             ELSE <<[topic |-> topic,
                     text |-> build_headline_message(
                                  IF topic = "Politica"
                                  THEN <<"P", "o", "l", "i", "t", "i", "c",
                                      "a">>
                                  ELSE <<"E", "c", "o", "n", "o", "m", "i",
                                      "a">>,
                                  topic_articles, SaoPaulo,
                                  DefaultMaxHeadlines, clock).text]>>)
            \o HeadlineMessagesFrom(Tail(topics), cats, clock)

PreparedMessages(v, arts, clock) ==
    IF v = "news_agent"
    THEN IF arts = <<>> THEN <<>>
         ELSE HeadlineMessagesFrom(<<"Politica", "Economia">>,
                                   categorize_articles(arts), clock)
    ELSE IF v = "news_agent_3"
    THEN IF arts = <<>> THEN <<>>
         ELSE <<[topic |-> "all",
                 text |-> prepare_news_message(arts, SaoPaulo, DefaultMaxArticles,
                                               DefaultMaxChars, clock).text]>>
    ELSE <<[topic |-> "Politica",
            text |-> Cut(build_headline_message_5(
                             <<"P", "o", "l", "i_acute", "t", "i", "c",
                             "a">>,
                             FixedPolitica, DefaultMaxHeadlines))],
           [topic |-> "Economia",
            text |-> Cut(build_headline_message_5(
                             <<"E", "c", "o", "n", "o", "m", "i", "a">>,
                             FixedEconomia, DefaultMaxHeadlines))]>>

\* what daily_job does after preparing, whatever send_message says
AfterPrepareAlwaysSend(send, msgs) ==
    IF msgs = <<>> THEN "done" ELSE "dispatch"

\* if send_message: ... else: the messages are previewed in the log
AfterPrepare(send, msgs) ==
    IF msgs = <<>> THEN "done"
    ELSE IF send THEN "dispatch" ELSE "done"

\* the dispatcher calls the send branch of daily_job makes when none fails:
\* message is the number of the prepared message the call carries, 0 for
\* the template call of news_agent (5).py that carries date and topic only
Plan(v, sid, msgs) ==
    IF v = "news_agent_5"
    THEN IF sid
         THEN <<[kind |-> "template", topic |-> msgs[1].topic, message |-> 0],
                [kind |-> "freeform", topic |-> msgs[1].topic, message |-> 1],
                [kind |-> "template", topic |-> msgs[2].topic, message |-> 0],
                [kind |-> "freeform", topic |-> msgs[2].topic, message |-> 2]>>
         ELSE <<[kind |-> "freeform", topic |-> msgs[1].topic, message |-> 1],
                [kind |-> "freeform", topic |-> msgs[2].topic, message |-> 2]>>
    ELSE [i \in 1..Len(msgs) |->
             [kind |-> IF sid /\ v = "news_agent" THEN "template" ELSE "freeform",
              topic |-> msgs[i].topic, message |-> i]]

\* whether the send is inside a try block that logs the error
Guarded(v) == v # "news_agent_5"

\* the next call of the plan, a failed call being made once more
PendingRetry(done) ==
    IF done = <<>> THEN 1
    ELSE IF ~done[Len(done)].ok
            /\ (Len(done) = 1 \/ done[Len(done) - 1].idx # done[Len(done)].idx)
    THEN done[Len(done)].idx
    ELSE done[Len(done)].idx + 1

\* the next call of the plan: the loop moves on after every call
Pending(done) ==
    IF done = <<>> THEN 1 ELSE done[Len(done)].idx + 1

\* the settings the senders read with os.getenv
SettingNames ==
    {"TWILIO_ACCOUNT_SID", "TWILIO_AUTH_TOKEN", "TWILIO_FROM_NUMBER",
     "TWILIO_TO_NUMBER"}

\* a str object, as opposed to None
Str(text) == [str |-> text]

\* bool(x) for what os.getenv returns: a str or None
TruthyText(x) == x # None /\ x # Str(<<>>)

\* an environment with every setting, twilio being installed
FullEnviron ==
    [Client |-> TRUE,
     TWILIO_ACCOUNT_SID |-> Str(<<"A", "C">>),
     TWILIO_AUTH_TOKEN |-> Str(<<"t">>),
     TWILIO_FROM_NUMBER |-> Str(<<"+", "1">>),
     TWILIO_TO_NUMBER |-> Str(<<"+", "2">>)]

\* the environments of a run: complete, one setting unset or empty, twilio
\* not installed
Environs ==
    {FullEnviron, [FullEnviron EXCEPT !.Client = FALSE]}
    \cup {[FullEnviron EXCEPT ![name] = v] :
              name \in SettingNames, v \in {None, Str(<<>>)}}

\* os.getenv("CONTENT_SID_DAILY") when it is set
DailySid == Str(<<"H", "X">>)

\* send_whatsapp_message with the test of the settings left out
send_whatsapp_message_unchecked(env, api_ok) ==
    [raised |-> ~api_ok, error |-> IF api_ok THEN "" ELSE "TwilioException",
     created |-> 1]

\* send_whatsapp_message(message) in the environment env: whether it raises,
\* and how many times client.messages.create was called; api_ok says
\* whether that call succeeds
send_whatsapp_message(env, api_ok) ==
    IF ~env.Client
    THEN [raised |-> TRUE, error |-> "RuntimeError", created |-> 0]
    ELSE IF \E name \in SettingNames : ~TruthyText(env[name])
    THEN [raised |-> TRUE, error |-> "EnvironmentError", created |-> 0]
    ELSE [raised |-> ~api_ok, error |-> IF api_ok THEN "" ELSE "TwilioException",
          created |-> 1]

\* send_template_message(content_sid, variables) in the environment env
send_template_message(env, sid, api_ok) ==
    IF ~env.Client
    THEN [raised |-> TRUE, error |-> "RuntimeError", created |-> 0]
    ELSE IF (\E name \in SettingNames : ~TruthyText(env[name])) \/ ~TruthyText(sid)
    THEN [raised |-> TRUE, error |-> "EnvironmentError", created |-> 0]
    ELSE [raised |-> ~api_ok, error |-> IF api_ok THEN "" ELSE "TwilioException",
          created |-> 1]

\* the senders of news_agent (5).py: no setting is tested before the client
\* is built and used
send_message_5(env, api_ok) ==
    [raised |-> ~api_ok, error |-> IF api_ok THEN "" ELSE "TwilioException",
     created |-> 1]

\* the sender daily_job calls for a call of the plan
Send(v, kind, env, api_ok) ==
    IF v = "news_agent_5" THEN send_message_5(env, api_ok)
    ELSE IF kind = "template" THEN send_template_message(env, DailySid, api_ok)
    ELSE send_whatsapp_message(env, api_ok)

InitDaily ==
    /\ pc = "daily"
    /\ variant \in DailyVariants
    /\ send_message \in BOOLEAN
    /\ content_sid \in BOOLEAN
    /\ environ \in Environs
    /\ \E ks \in SeqUpTo(1..3, MaxDailyArticles) :
           articles = IF variant = "news_agent_5" THEN <<>>
                      ELSE [i \in 1..Len(ks) |-> TaggedArticle(i, ks[i])]
    /\ now = HalfHoursPerDay
    /\ messages = <<>> /\ calls = <<>> /\ outcome = "running"
    /\ categories = EmptyCategories
    /\ max_articles = 0 /\ max_chars = 0 /\ message = <<>> /\ tz = 0
    /\ filtered = <<>> /\ refiltered = <<>> /\ reads = <<>>
    /\ page = <<>> /\ parsed = None /\ all_ingredients = <<>> /\ shopping = <<>>
    /\ MenuIdle /\ ExtractIdle /\ SchedIdle

\* daily_job up to "if send_message:"
DailyPrepare ==
    /\ pc = "daily"
    /\ messages' = PreparedMessages(variant, articles, now)
    /\ pc' = AfterPrepare(send_message, messages')
    /\ outcome' = IF pc' = "done" THEN "returned" ELSE "running"
    /\ UNCHANGED <<send_message, content_sid, environ, calls>>
    /\ UNCHANGED <<newsVars, mealVars, menuVars, extractVars, schedVars>>

\* one call of send_whatsapp_message or send_template_message, which
\* succeeds or raises: for a missing setting, or in the call of Twilio
DispatchCall ==
    /\ pc = "dispatch"
    /\ LET plan == Plan(variant, content_sid, messages)
           idx == Pending(calls)
       IN \E ok \in BOOLEAN :
           \E sent \in {Send(variant, plan[idx].kind, environ, api_ok) :
                            api_ok \in BOOLEAN} :
              /\ ok = ~sent.raised
              /\ calls' = Append(calls, [idx |-> idx, kind |-> plan[idx].kind,
                                         topic |-> plan[idx].topic,
                                         message |-> plan[idx].message,
                                         ok |-> ok, created |-> sent.created])
              /\ IF ~ok /\ ~Guarded(variant)
                 THEN outcome' = "raised" /\ pc' = "done"
                 ELSE IF Pending(calls') > Len(plan)
                 THEN outcome' = "returned" /\ pc' = "done"
                 ELSE UNCHANGED <<outcome, pc>>
    /\ UNCHANGED <<send_message, content_sid, environ, messages>>
    /\ UNCHANGED <<newsVars, mealVars, menuVars, extractVars, schedVars>>

NextDaily == DailyPrepare \/ DispatchCall

SpecDaily == InitDaily /\ [][NextDaily]_vars

\* the calls that carried the i-th prepared message
CallsFor(i) == {k \in 1..Len(calls) : calls[k].message = i}

\* C13: in a run of daily_job with send_message = True, a dispatch failure
\* on one message does not prevent the attempt to send each later message:
\* when the run is over every prepared message got a send attempt.
C13_EveryMessageAttempted ==
    (pc = "done" /\ send_message) =>
        \A i \in 1..Len(messages) : CallsFor(i) # {}

\* the runs of both jobs, for what holds of every dispatcher call
InitDispatch == InitJob \/ InitDaily

NextDispatch == NextJob \/ NextDaily

SpecDispatch == InitDispatch /\ [][NextDispatch]_vars

\* C14: within one run the dispatcher is called at most once for each
\* prepared message, whether the call succeeds or fails: no call of the
\* run is made a second time after it failed.
C14_AtMostOneCallPerMessage ==
    /\ \A i \in 1..Len(messages) : Cardinality(CallsFor(i)) <= 1
    /\ \A k, l \in 1..Len(calls) : k # l => calls[k].idx # calls[l].idx

\* the send of the first message failed and the run went on to the second
\* message without calling the dispatcher again for the first
C14_Witness ==
    /\ pc = "done"
    /\ variant = "news_agent"
    /\ Len(messages) = 2
    /\ Len(calls) = 2
    /\ ~calls[1].ok /\ calls[1].message = 1
    /\ calls[2].message = 2

-----------------------------------------------------------------------------
(* The extractors of the news agent: get_rss_articles and                  *)
(* scrape_valor_headlines.                                                 *)

\* the default of max_entries and of max_articles of the scrape
DefaultMaxEntries == 5

\* the hosts the process runs on: UTC, America/Sao_Paulo, Asia/Tokyo
HostZones == {0, 0 - 6, 18}

\* datetime.fromtimestamp(time.mktime(t), pytz.utc): time.mktime reads the
\* fields of t, which feedparser gives in UTC, as a time of the host's zone
MkTime(fields, host) == fields - host

\* a or b, for two texts
OrText(a, b) == IF a # <<>> THEN a ELSE b

\* the dict get_rss_articles builds for one entry; id stands for the place
\* of the entry in the feed
RssArticle(entry, feed_name, host) ==
    [id |-> entry.id,
     title |-> Get(entry, "title", <<>>),
     link |-> Get(entry, "link", <<>>),
     summary |-> OrText(Get(entry, "summary", <<>>),
                        Get(entry, "description", <<>>)),
     published |-> IF "published_parsed" \in DOMAIN entry
                      /\ entry.published_parsed # None
                   THEN Aware(MkTime(entry.published_parsed.fields, host))
                   ELSE None,
     source |-> feed_name]

\* get_rss_articles with the articles in the reverse order of the feed
get_rss_articles_reversed(feed_name, feed, max_entries, host) ==
    LET entries == Slice(feed.entries, max_entries)
    IN IF ~feed.ok THEN Raised
       ELSE [raised |-> FALSE,
             articles |-> [i \in 1..Len(entries) |->
                              RssArticle(entries[Len(entries) + 1 - i],
                                         feed_name, host)]]

\* get_rss_articles(feed_name, feed_url, max_entries) on a host of zone host,
\* the URL answering feed; it raises when feedparser or a conversion raises
get_rss_articles(feed_name, feed, max_entries, host) ==
    LET entries == Slice(feed.entries, max_entries)
    IN IF ~feed.ok THEN Raised
       ELSE [raised |-> FALSE,
             articles |-> [i \in 1..Len(entries) |->
                              RssArticle(entries[i], feed_name, host)]]

\* len(text.split())
WordCount(text) ==
    Cardinality({i \in 1..Len(text) :
                    /\ text[i] \notin Whitespace
                    /\ (i = 1 \/ text[i - 1] \in Whitespace)})

\* s.rstrip(c)
RECURSIVE RStripChar(_, _)
RStripChar(s, c) ==
    IF s # <<>> /\ s[Len(s)] = c THEN RStripChar(SubSeq(s, 1, Len(s) - 1), c)
    ELSE s

Http == <<"h", "t", "t", "p">>

Valor == <<"V", "a", "l", "o", "r">>

\* the minimum of len(text.split()) for a headline
MinWords == 3

\* the loop of scrape_valor_headlines over the tags of the page, from the
\* state (headlines, seen_titles): the limit is tested after an append
RECURSIVE ScrapeFrom(_, _, _, _, _)
ScrapeFrom(headlines, seen_titles, tags, base_url, maxArticles) ==
    IF tags = <<>> THEN headlines
    ELSE LET tag == Head(tags)
             text == GetTextStrip(tag.text)
             href == tag.href
         IN IF text = <<>> \/ href = None \/ href = <<>>
            THEN ScrapeFrom(headlines, seen_titles, Tail(tags), base_url, maxArticles)
            ELSE IF WordCount(text) < MinWords
            THEN ScrapeFrom(headlines, seen_titles, Tail(tags), base_url, maxArticles)
            ELSE IF text \in seen_titles
            THEN ScrapeFrom(headlines, seen_titles, Tail(tags), base_url, maxArticles)
            ELSE IF StartsWith(href, <<"/">>) \/ StartsWith(href, Http)
            THEN LET link == IF StartsWith(href, <<"/">>)
                             THEN RStripChar(base_url, "/") \o href
                             ELSE href
                     added == Append(headlines,
                                     [title |-> text, link |-> link,
                                      summary |-> <<>>, published |-> None,
                                      source |-> Valor])
                 IN IF Len(added) >= maxArticles THEN added
                    ELSE ScrapeFrom(added, seen_titles \cup {text}, Tail(tags),
                                    base_url, maxArticles)
            ELSE ScrapeFrom(headlines, seen_titles \cup {text}, Tail(tags),
                            base_url, maxArticles)

\* scrape_valor_headlines(base_url, max_articles), the home page answering
\* home: a failed request gives []; an error of the HTML parser is not caught
scrape_valor_headlines(home, base_url, maxArticles) ==
    IF home.state = "fetch_error" THEN [raised |-> FALSE, articles |-> <<>>]
    ELSE IF home.state = "parse_error" THEN Raised
    ELSE [raised |-> FALSE,
          articles |-> ScrapeFrom(<<>>, {}, home.tags, base_url, maxArticles)]

-----------------------------------------------------------------------------
(* get_rss_articles on every feed of at most MaxEntries entries.           *)

MaxEntries == 3

\* the entries a feed can hold: with every field; without title and summary
\* but with a description; with an empty date; with no field at all
EntryKinds == {
    [title |-> <<"t">>, link |-> <<"l">>, summary |-> <<"s">>,
     description |-> <<"d">>, published_parsed |-> [fields |-> 47]],
    [link |-> <<"l">>, description |-> <<"d">>,
     published_parsed |-> [fields |-> HalfHoursPerDay + 6]],
    [title |-> <<"t">>, summary |-> <<>>, published_parsed |-> None],
    [other |-> <<>>]}

\* the entry e at place i of a feed
Placed(e, i) == [k \in DOMAIN e \cup {"id"} |-> IF k = "id" THEN i ELSE e[k]]

Feeds ==
    {[ok |-> TRUE, entries |-> [i \in 1..Len(es) |-> Placed(es[i], i)]] :
        es \in SeqUpTo(EntryKinds, MaxEntries)}
    \cup {[ok |-> FALSE, entries |-> <<>>]}

MaxEntriesValues == {0, 1, 2, DefaultMaxEntries}

InitFeed ==
    /\ pc = "feed"
    /\ doc \in Feeds
    /\ limit \in MaxEntriesValues
    /\ host_tz \in HostZones
    /\ result = None
    /\ sources = <<>> /\ fetched = <<>> /\ runs = <<>> /\ next_run = 0
    /\ NewsIdle /\ MealIdle /\ DispatchIdle /\ MenuIdle

\* result = get_rss_articles("Globo_Politica", feed_url, limit)
GetRssArticles ==
    /\ pc = "feed"
    /\ result' = get_rss_articles(SourceTags[2], doc, limit, host_tz)
    /\ pc' = "fed"
    /\ UNCHANGED <<sources, fetched, doc, limit>>
    /\ UNCHANGED <<newsVars, mealVars, dispatchVars, menuVars, schedVars>>

NextFeed == GetRssArticles

SpecFeed == InitFeed /\ [][NextFeed]_vars

\* C18: get_rss_articles returns at most max_entries articles, and they are
\* the first entries of the feed in feed order (a prefix of the feed), each
\* tagged with the feed name as source.
C18_FeedPrefix ==
    (pc = "fed" /\ ~result.raised) =>
        /\ Len(result.articles) <= limit
        /\ Len(result.articles) <= Len(doc.entries)
        /\ Len(result.articles) = limit \/ Len(result.articles) = Len(doc.entries)
        /\ \A i \in 1..Len(result.articles) :
               /\ result.articles[i].id = doc.entries[i].id
               /\ result.articles[i].title = Get(doc.entries[i], "title", <<>>)
               /\ result.articles[i].source = SourceTags[2]

\* a feed of three different entries cut to its first two
C18_Witness ==
    /\ pc = "fed" /\ ~result.raised
    /\ limit = 2
    /\ Len(doc.entries) = 3
    /\ "title" \in DOMAIN doc.entries[1] /\ "title" \notin DOMAIN doc.entries[2]
    /\ Len(result.articles) = 2
    /\ result.articles[2].summary = <<"d">>

-----------------------------------------------------------------------------
(* scrape_valor_headlines on every page of at most MaxTags tags.           *)

MaxTags == 3

BaseUrl == <<"h", "t", "t", "p", ":", "/", "/", "v", "/">>

\* the h2, h3 and a elements of a page: a headline with a relative link, the
\* same headline again, a headline with an absolute link, a text of two
\* words, a heading without href, a link that is neither relative nor
\* absolute, the same text with a relative link, an element without text
TagKinds == {
    [name |-> "a", text |-> <<" ", "a", " ", "b", " ", "c", " ">>, href |-> <<"/", "x">>],
    [name |-> "a", text |-> <<"a", " ", "b", " ", "c">>, href |-> <<"h", "t", "t", "p", ":", "/", "/", "w", "/", "y">>],
    [name |-> "a", text |-> <<"d", " ", "e", "\t", "f", " ", "g">>, href |-> <<"h", "t", "t", "p", "s", ":", "/", "/", "w", "/", "z">>],
    [name |-> "a", text |-> <<"a", " ", " ", "b">>, href |-> <<"/", "x">>],
    [name |-> "h2", text |-> <<"h", " ", "i", " ", "j">>, href |-> None],
    [name |-> "a", text |-> <<"k", " ", "l", " ", "m">>, href |-> <<"m", "a", "i", "l", "t", "o", ":", "x">>],
    [name |-> "a", text |-> <<"k", " ", "l", " ", "m">>, href |-> <<"/", "k">>],
    [name |-> "a", text |-> <<" ">>, href |-> <<"/", "x">>]}

Homes ==
    {[state |-> "ok", tags |-> ts] : ts \in SeqUpTo(TagKinds, MaxTags)}
    \cup {[state |-> "fetch_error", tags |-> <<>>]}

MaxScrapeValues == {0, 1, 2, DefaultMaxEntries}

InitScrape ==
    /\ pc = "scrape"
    /\ doc \in Homes
    /\ limit \in MaxScrapeValues
    /\ result = None
    /\ sources = <<>> /\ fetched = <<>>
    /\ NewsIdle /\ MealIdle /\ DispatchIdle /\ MenuIdle /\ SchedIdle

\* result = scrape_valor_headlines(BaseUrl, limit)
ScrapeValorHeadlines ==
    /\ pc = "scrape"
    /\ result' = scrape_valor_headlines(doc, BaseUrl, limit)
    /\ pc' = "scraped"
    /\ UNCHANGED <<sources, fetched, doc, limit>>
    /\ UNCHANGED <<newsVars, mealVars, dispatchVars, menuVars, schedVars>>

NextScrape == ScrapeValorHeadlines

SpecScrape == InitScrape /\ [][NextScrape]_vars

\* C19: scrape_valor_headlines returns at most max_articles headlines; every
\* headline has a visible text of at least 3 words, no two headlines have
\* the same title, every link is absolute (a link starting with "/" is
\* prefixed with the base URL), and scanning stops as soon as max_articles
\* headlines are collected.
C19_ScrapeBounded ==
    (pc = "scraped" /\ ~result.raised) =>
        LET hs == result.articles
        IN /\ Len(hs) <= limit
           /\ \A i \in 1..Len(hs) :
                  /\ WordCount(hs[i].title) >= MinWords
                  /\ StartsWith(hs[i].link, Http)
                  /\ \A j \in 1..Len(hs) : hs[i].title = hs[j].title => i = j

-----------------------------------------------------------------------------
(* collect_today_news over a table of at most MaxFeeds feeds and the       *)
(* Valor home page.                                                        *)

MaxFeeds == 2

\* keys of RSS_FEEDS
FeedNames == {<<"W", "S", "J", "_", "P", "o", "l", "i", "t", "i", "c", "a">>,
              <<"E", "s", "t", "a", "d", "a", "o", "_", "E", "c", "o", "n", "o", "m", "i", "a">>,
              <<"G", "l", "o", "b", "o", "_", "P", "o", "l", "i", "t", "i", "c", "a">>}

\* the lists of k distinct feed names
FeedTables ==
    UNION {{t \in [1..k -> FeedNames] : \A i, j \in 1..k : t[i] = t[j] => i = j} :
               k \in 0..MaxFeeds}

\* the instant at which collect_today_news runs: 15:00 UTC of the second day
CollectTime == HalfHoursPerDay + 30

\* what a feed URL answers: an error, no entry, one entry of today, or an
\* entry of the day before followed by two of today
FeedAnswers == {
    [ok |-> FALSE, entries |-> <<>>],
    [ok |-> TRUE, entries |-> <<>>],
    [ok |-> TRUE,
     entries |-> <<[id |-> 1, title |-> <<"t">>,
                    published_parsed |-> [fields |-> HalfHoursPerDay + 20]]>>],
    [ok |-> TRUE,
     entries |-> <<[id |-> 1, title |-> <<"o">>,
                    published_parsed |-> [fields |-> 20]],
                   [id |-> 2, title |-> <<"t">>,
                    published_parsed |-> [fields |-> HalfHoursPerDay + 20]],
                   [id |-> 3, title |-> <<"u">>, published_parsed |-> None]>>]}

\* what the Valor home page answers
HomeAnswers == {
    [state |-> "fetch_error", tags |-> <<>>],
    [state |-> "parse_error", tags |-> <<>>],
    [state |-> "ok", tags |-> <<>>],
    [state |-> "ok",
     tags |-> <<[name |-> "a", text |-> <<"d", " ", "e", " ", "f">>, href |-> <<"/", "y">>],
                [name |-> "a", text |-> <<"a", " ", "b", " ", "c">>, href |-> <<"/", "x">>]>>]}

ValorUrl == <<"h", "t", "t", "p", "s", ":", "/", "/", "v">>

\* the loop of collect_today_news over RSS_FEEDS.items()
RECURSIVE CollectFeeds(_, _, _)
CollectFeeds(all_articles, feeds, host) ==
    IF feeds = <<>> THEN all_articles
    ELSE LET got == get_rss_articles(Head(feeds).name, Head(feeds).feed,
                                     DefaultMaxEntries, host)
         IN CollectFeeds(IF got.raised THEN all_articles
                         ELSE all_articles \o got.articles,
                         Tail(feeds), host)

\* list.sort(key=lambda x: x.get("source", "")): a stable sort
RECURSIVE SortedBySource(_)
SortedBySource(list) ==
    IF list = <<>> THEN <<>>
    ELSE LET rest == SortedBySource(SubSeq(list, 1, Len(list) - 1))
             x == list[Len(list)]
             n == Cardinality({i \in 1..Len(rest) :
                                   ~StrLess(Get(x, "source", <<>>),
                                            Get(rest[i], "source", <<>>))})
         IN SubSeq(rest, 1, n) \o <<x>> \o SubSeq(rest, n + 1, Len(rest))

\* collect_today_news with the result left in the order of collection
collect_today_news_unsorted(feeds, home, host, clock) ==
    LET from_feeds == CollectFeeds(<<>>, feeds, host)
        valor_articles == scrape_valor_headlines(home, ValorUrl, DefaultMaxEntries)
    IN IF valor_articles.raised THEN Raised
       ELSE [raised |-> FALSE,
             articles |-> filter_today_articles(
                              from_feeds \o valor_articles.articles,
                              SaoPaulo, clock)]

\* collect_today_news() on a host of zone host at the instant clock
collect_today_news(feeds, home, host, clock) ==
    LET from_feeds == CollectFeeds(<<>>, feeds, host)
        valor_articles == scrape_valor_headlines(home, ValorUrl, DefaultMaxEntries)
    IN IF valor_articles.raised THEN Raised
       ELSE [raised |-> FALSE,
             articles |-> SortedBySource(
                              filter_today_articles(
                                  from_feeds \o valor_articles.articles,
                                  SaoPaulo, clock))]

InitCollect ==
    /\ pc = "collect"
    /\ \E t \in FeedTables :
           \E answers \in [1..Len(t) -> FeedAnswers] :
               sources = [i \in 1..Len(t) |-> [name |-> t[i], feed |-> answers[i]]]
    /\ doc \in HomeAnswers
    /\ host_tz \in {0, SaoPaulo}
    /\ now = CollectTime
    /\ fetched = <<>> /\ limit = 0 /\ result = None /\ runs = <<>>
    /\ next_run = 0
    /\ articles = <<>> /\ categories = EmptyCategories
    /\ max_articles = 0 /\ max_chars = 0 /\ message = <<>> /\ tz = 0
    /\ filtered = <<>> /\ refiltered = <<>> /\ reads = <<>>
    /\ MealIdle /\ DispatchIdle /\ MenuIdle

\* result = collect_today_news(): every feed of the table is requested, then
\* the Valor home page
Collect ==
    /\ pc = "collect"
    /\ fetched' = [i \in 1..Len(sources) |-> sources[i].name] \o <<Valor>>
    /\ result' = collect_today_news(sources, doc, host_tz, now)
    /\ pc' = "collected"
    /\ UNCHANGED <<sources, doc, limit>>
    /\ UNCHANGED <<newsVars, mealVars, dispatchVars, menuVars, schedVars>>

NextCollect == Collect

SpecCollect == InitCollect /\ [][NextCollect]_vars

\* the articles of today that the i-th feed gives when it answers
FeedYield(i) ==
    IF ~sources[i].feed.ok THEN <<>>
    ELSE filter_today_articles(
             get_rss_articles(sources[i].name, sources[i].feed,
                              DefaultMaxEntries, host_tz).articles,
             SaoPaulo, now)

\* the headlines the home page gives when it answers
HomeYield ==
    IF doc.state # "ok" THEN <<>>
    ELSE ScrapeFrom(<<>>, {}, doc.tags, ValorUrl, DefaultMaxEntries)

Elems(list) == {list[i] : i \in 1..Len(list)}

\* C15: a failure while fetching or parsing one source (an RSS feed or the
\* Valor home page) contributes no item from that source and does not stop
\* the run: every source is requested and the items of all the sources
\* that answered are returned.
C15_FailedSourceSkipped ==
    pc = "collected" =>
        /\ ~result.raised
        /\ Len(fetched) = Len(sources) + 1
        /\ Elems(result.articles) =
               UNION {Elems(FeedYield(i)) : i \in 1..Len(sources)}
               \cup Elems(HomeYield)

\* build_menu's shopping list and collect_today_news, for what holds of the
\* order of both
InitOrder == InitShopping \/ InitCollect

NextOrder == NextShopping \/ NextCollect

SpecOrder == InitOrder /\ [][NextOrder]_vars

SourceOf(art) == Get(art, "source", <<>>)

\* the articles collect_today_news sorts, in the order of collection
Collected ==
    collect_today_news_unsorted(sources, doc, host_tz, now).articles

\* C16: the order of a final digest is a deterministic sort of its items:
\* the shopping list of build_menu is in non-decreasing order of lower-cased
\* text, and the list collect_today_news returns is in non-decreasing order
\* of source tag, the articles of one source staying in feed order.
C16_DigestOrder ==
    /\ pc = "deduped" =>
           \A i, j \in 1..Len(shopping) :
               i < j => ~StrLess(Lower(shopping[j]), Lower(shopping[i]))
    /\ (pc = "collected" /\ ~result.raised) =>
           /\ \A i, j \in 1..Len(result.articles) :
                  i < j => ~StrLess(SourceOf(result.articles[j]),
                                    SourceOf(result.articles[i]))
           /\ \A src \in {SourceOf(a) : a \in Elems(Collected)} :
                  SelectSeq(result.articles, LAMBDA a : SourceOf(a) = src)
                      = SelectSeq(Collected, LAMBDA a : SourceOf(a) = src)
           /\ Len(result.articles) = Len(Collected)

\* the feed WSJ_Politica is read before the Valor home page and its two
\* articles of today come after the two headlines of Valor, each pair in the
\* order of its source
C16_Witness ==
    /\ pc = "collected" /\ ~result.raised
    /\ Len(result.articles) = 4
    /\ SourceOf(result.articles[1]) = Valor
    /\ SourceOf(result.articles[2]) = Valor
    /\ result.articles[1].title = <<"d", " ", "e", " ", "f">>
    /\ SourceOf(result.articles[3]) = sources[1].name
    /\ result.articles[3].id = 2 /\ result.articles[4].id = 3
    /\ Collected # result.articles

-----------------------------------------------------------------------------
(* schedule_daily_news: schedule.every().day.at("06:00") and the loop of   *)
(* run_pending.  The clock advances by half hours.                         *)

\* the days the scheduler is followed
MaxSchedDays == 2

\* "06:00", in half hours after midnight
SixAM == 6 * 2

\* the time of day of an instant on a clock of the zone
TimeOfDay(instant, zone) == (instant + zone) % HalfHoursPerDay

\* the instants schedule can hold for the first run of a job scheduled at
\* clock with at("06:00"): no timezone is given, so "06:00" is read on the
\* clock of the host; a job scheduled at 06:00 sharp runs now or in a day
FirstRuns(clock, host) ==
    {t \in clock..(clock + HalfHoursPerDay) :
        /\ TimeOfDay(t, host) = SixAM
        /\ t > clock \/ TimeOfDay(clock, host) = SixAM}

InitSched ==
    /\ pc = "schedule"
    /\ host_tz \in HostZones
    /\ now \in 0..(HalfHoursPerDay - 1)
    /\ runs = <<>> /\ next_run = 0
    /\ articles = <<>> /\ categories = EmptyCategories
    /\ max_articles = 0 /\ max_chars = 0 /\ message = <<>> /\ tz = 0
    /\ filtered = <<>> /\ refiltered = <<>> /\ reads = <<>>
    /\ MealIdle /\ DispatchIdle /\ MenuIdle /\ ExtractIdle

\* schedule.every().day.at("06:00").do(job_wrapper)
ScheduleDailyNews ==
    /\ pc = "schedule"
    /\ next_run' \in FirstRuns(now, host_tz)
    /\ pc' = "loop"
    /\ UNCHANGED <<host_tz, runs>>
    /\ UNCHANGED <<newsVars, mealVars, dispatchVars, menuVars, extractVars>>

\* schedule.run_pending() when the job is due: daily_job runs and the job is
\* scheduled for the next day
RunPending ==
    /\ pc = "loop"
    /\ now >= next_run
    /\ runs' = Append(runs, now)
    /\ next_run' = next_run + HalfHoursPerDay
    /\ UNCHANGED <<pc, host_tz>>
    /\ UNCHANGED <<newsVars, mealVars, dispatchVars, menuVars, extractVars>>

\* schedule.run_pending() when nothing is due, then time.sleep
Sleep ==
    /\ pc = "loop"
    /\ now < next_run
    /\ now < MaxSchedDays * HalfHoursPerDay
    /\ now' = now + 1
    /\ UNCHANGED <<pc, articles, categories, max_articles, max_chars, message,
                   tz, filtered, refiltered, reads>>
    /\ UNCHANGED <<mealVars, dispatchVars, menuVars, extractVars, schedVars>>

NextSched == ScheduleDailyNews \/ RunPending \/ Sleep

SpecSched == InitSched /\ [][NextSched]_vars

\* C20: the scheduler runs the news job at 06:00 in the America/Sao_Paulo
\* timezone, whatever the timezone of the host the process runs on.
C20_RunsAtSixSaoPaulo ==
    \A i \in 1..Len(runs) : TimeOfDay(runs[i], SaoPaulo) = SixAM

-----------------------------------------------------------------------------
(* schedule_job of the meal planner: the job is due every Sunday at 08:00  *)
(* on the clock of the host; schedule.run_pending() runs it in the loop.   *)

MaxSchedWeeks == 2

HalfHoursPerWeek == 7 * HalfHoursPerDay

\* "08:00", in half hours after midnight
EightAM == 8 * 2

\* the day of the week of an instant on a clock of the zone, 0 for Monday;
\* day 0 of the epoch is a Thursday
Weekday(instant, zone) == (((instant + zone) \div HalfHoursPerDay) + 3) % 7

Sunday == 6

\* every().sunday.at("08:00"): the instants the job is scheduled at
IsSundayEight(t, host) ==
    Weekday(t, host) = Sunday /\ TimeOfDay(t, host) = EightAM

\* the next run schedule computes at clock: the first Sunday 08:00 after it
NextSundayEight(clock, host) ==
    Min({t \in (clock + 1)..(clock + HalfHoursPerWeek) : IsSundayEight(t, host)})

\* what the blog can answer at a run: unreachable, a post with six recipes,
\* a post with seven
BlogAnswers ==
    {[ok |-> FALSE, anchors |-> <<>>],
     [ok |-> TRUE, anchors |-> SubSeq(Hrefs, 1, 9)],
     [ok |-> TRUE, anchors |-> SubSeq(Hrefs, 1, 10)]}

\* job(): build_menu() and the composition are outside the try, the send is
\* inside it; the outcomes of a run when the blog answers b
job(b, v) ==
    {IF built.raised THEN "raised" ELSE "returned" :
        built \in {build_menu(b, v, selected) : selected \in Selections(b)}}

\* the instants the process is started at
StartInstants == {0, 3 * HalfHoursPerDay + EightAM + 1, 5 * HalfHoursPerDay}

InitMealSched ==
    /\ pc = "schedule_job"
    /\ host_tz \in HostZones
    /\ now \in StartInstants
    /\ runs = <<>> /\ next_run = 0
    /\ variant = "meal_planner"
    /\ articles = <<>> /\ categories = EmptyCategories
    /\ max_articles = 0 /\ max_chars = 0 /\ message = <<>> /\ tz = 0
    /\ filtered = <<>> /\ refiltered = <<>> /\ reads = <<>>
    /\ page = <<>> /\ parsed = None /\ all_ingredients = <<>> /\ shopping = <<>>
    /\ DispatchIdle /\ MenuIdle /\ ExtractIdle

\* schedule.every().sunday.at("08:00").do(job)
ScheduleJob ==
    /\ pc = "schedule_job"
    /\ next_run' = NextSundayEight(now, host_tz)
    /\ pc' = "while"
    /\ UNCHANGED <<now, host_tz, runs>>
    /\ UNCHANGED <<articles, categories, max_articles, max_chars, message,
                   tz, filtered, refiltered, reads>>
    /\ UNCHANGED <<mealVars, dispatchVars, menuVars, extractVars>>

\* schedule.run_pending() when the job is due: job() runs; schedule does not
\* catch what job() raises, so the error leaves the while loop and ends
\* schedule_job
RunPendingJob ==
    /\ pc = "while"
    /\ now >= next_run
    /\ \E b \in BlogAnswers : \E o \in job(b, variant) :
           /\ runs' = Append(runs, [at |-> now, outcome |-> o])
           /\ pc' = IF o = "raised" THEN "ended" ELSE "while"
    /\ next_run' = NextSundayEight(now, host_tz)
    /\ UNCHANGED <<now, host_tz>>
    /\ UNCHANGED <<articles, categories, max_articles, max_chars, message,
                   tz, filtered, refiltered, reads>>
    /\ UNCHANGED <<mealVars, dispatchVars, menuVars, extractVars>>

\* schedule.run_pending() when nothing is due, then time.sleep
SleepJob ==
    /\ pc = "while"
    /\ now < next_run
    /\ now < MaxSchedWeeks * HalfHoursPerWeek
    /\ now' = now + 1
    /\ UNCHANGED <<pc, articles, categories, max_articles, max_chars, message,
                   tz, filtered, refiltered, reads>>
    /\ UNCHANGED <<mealVars, dispatchVars, menuVars, extractVars, schedVars>>

\* the clock after schedule_job has ended
Elapse ==
    /\ pc = "ended"
    /\ now < MaxSchedWeeks * HalfHoursPerWeek
    /\ now' = now + 1
    /\ UNCHANGED <<pc, articles, categories, max_articles, max_chars, message,
                   tz, filtered, refiltered, reads>>
    /\ UNCHANGED <<mealVars, dispatchVars, menuVars, extractVars, schedVars>>

NextMealSched == ScheduleJob \/ RunPendingJob \/ SleepJob \/ Elapse

SpecMealSched == InitMealSched /\ [][NextMealSched]_vars

\* C21: once schedule_job is started the menu job is attempted at every
\* scheduled Sunday 08:00, whatever the outcome of earlier runs: every
\* Sunday 08:00 that has passed since the first run has a run of its own,
\* and no run ends the scheduling loop.
C21_EverySundayAttempted ==
    /\ pc # "ended"
    /\ \A t \in 0..(MaxSchedWeeks * HalfHoursPerWeek) :
           (/\ IsSundayEight(t, host_tz)
            /\ runs # <<>>
            /\ runs[1].at < t
            /\ t < now)
           => \E i \in 1..Len(runs) : runs[i].at = t

\* the same when no run has failed
C21_EverySundayWhileRunsSucceed ==
    (\A i \in 1..Len(runs) : runs[i].outcome = "returned")
    => C21_EverySundayAttempted

\* two runs have been made, a week apart
C21_TwoRuns ==
    Len(runs) = 2 /\ runs[2].at = runs[1].at + HalfHoursPerWeek

-----------------------------------------------------------------------------
\* C22: whenever build_menu returns, the menu holds exactly seven entries
\* with pairwise distinct URLs, and the composed message has one recipe line
\* for each weekday from Segunda-feira to Domingo.
C22_SevenDistinctRecipes ==
    pc = "send" =>
        /\ Len(menu) = RequiredRecipes
        /\ \A i, j \in 1..Len(menu) : menu[i][2] = menu[j][2] => i = j
        /\ Len(messages[1]) >= 1 + Len(dias_semana)
        /\ \A d \in 1..Len(dias_semana) : messages[1][1 + d][1] = dias_semana[d]

\* the URLs of the menu are pairwise distinct, and each weekday has at most
\* one line
C22_NoRecipeTwice ==
    pc = "send" =>
        /\ Len(menu) <= RequiredRecipes
        /\ \A i, j \in 1..Len(menu) : menu[i][2] = menu[j][2] => i = j

\* build_menu has returned a menu
C22_MenuBuilt == pc = "send" /\ Len(menu) > 0

-----------------------------------------------------------------------------
(* The summary prepare_news_message shows for an item, on summaries put    *)
(* together from at most MaxPieces pieces.                                 *)

MaxPieces == 3

\* the pieces a summary is put together from: words of several lengths,
\* white space, a period, a tag
SummaryPieces ==
    {<<"w">>, Rep("w", 75), Rep("w", SummaryLimit), <<" ">>, <<"\n", " ">>,
     <<".">>, <<"<", "b", ">">>}

SummaryTexts ==
    {ConcatRange(ps, 1, Len(ps)) : ps \in SeqUpTo(SummaryPieces, MaxPieces)}

InitSummary ==
    /\ pc = "summary"
    /\ \E text \in SummaryTexts : articles = <<[summary |-> text]>>
    /\ message = <<>>
    /\ categories = EmptyCategories
    /\ max_articles = 0 /\ max_chars = 0 /\ now = 0 /\ tz = 0
    /\ filtered = <<>> /\ refiltered = <<>> /\ reads = <<>>
    /\ MealIdle
    /\ RunIdle

\* the truncation of the loop of prepare_news_message, for one article
Summarise ==
    /\ pc = "summary"
    /\ message' = Truncated(articles[1])
    /\ pc' = "summarised"
    /\ UNCHANGED <<articles, categories, max_articles, max_chars, now, tz,
                   filtered, refiltered, reads>>
    /\ UNCHANGED mealVars
    /\ UNCHANGED runVars

NextSummary == Summarise

SpecSummary == InitSummary /\ [][NextSummary]_vars

\* the whitespace-collapsed text of the summary up to the first period
FirstSentence(art) ==
    Strip(BeforeFirst(Collapse(Strip(GetText(Get(art, "summary", <<>>)))), "."))

\* shown is the first k characters of sentence, k at most SummaryLimit, cut
\* at the end of a word, followed by an ellipsis
CutAtWord(shown, sentence) ==
    \E k \in 0..SummaryLimit :
        /\ shown = Take(sentence, k) \o <<"ellipsis">>
        /\ sentence[k + 1] = " "

\* C23: the summary shown for an item is the whitespace-collapsed text up to
\* the first period when that prefix has at most 150 characters; otherwise
\* it is the first 150 characters cut back to a whole-word boundary,
\* followed by an ellipsis. It has at most 151 characters and never ends in
\* the middle of a word.
C23_SummaryCutAtWord ==
    pc = "summarised" =>
        LET sentence == FirstSentence(articles[1])
        IN /\ Len(sentence) <= SummaryLimit => message = sentence
           /\ Len(sentence) > SummaryLimit => CutAtWord(message, sentence)
           /\ Len(message) <= SummaryLimit + 1

\* the same for the summaries whose first 150 characters hold a space, and
\* the bound on the length for all of them
C23_SummaryCutWhenSpaced ==
    pc = "summarised" =>
        LET sentence == FirstSentence(articles[1])
        IN /\ Len(sentence) <= SummaryLimit => message = sentence
           /\ (/\ Len(sentence) > SummaryLimit
               /\ Positions(Take(sentence, SummaryLimit), " ") # {})
              => CutAtWord(message, sentence)
           /\ Len(message) <= SummaryLimit + 1

\* a summary was cut at a word boundary
C23_CutReached ==
    /\ pc = "summarised"
    /\ Len(FirstSentence(articles[1])) > SummaryLimit
    /\ CutAtWord(message, FirstSentence(articles[1]))

-----------------------------------------------------------------------------
\* the positions in the input of the articles of bucket b, in bucket order
InputPositions(b) ==
    [j \in 1..Len(categories[b]) |->
        CHOOSE i \in 0..Len(articles) :
            \/ i > 0 /\ articles[i] = categories[b][j]
            \/ i = 0 /\ \A k \in 1..Len(articles) : articles[k] # categories[b][j]]

\* the buckets taken together are the input articles, each as it was, and
\* each bucket is in input order
BucketsPartitionInput ==
    /\ \A b \in BucketNames :
           /\ \A j \in 1..Len(categories[b]) : InputPositions(b)[j] > 0
           /\ \A j, k \in 1..Len(categories[b]) :
                  j < k => InputPositions(b)[j] < InputPositions(b)[k]
    /\ Len(categories.Economia) + Len(categories.Politica)
           + Len(categories.Outros) = Len(articles)
    /\ \A i \in 1..Len(articles) : \E b \in BucketNames : InBucket(b, articles[i])

\* C24: categorize_articles leaves every article unchanged and neither loses
\* nor duplicates articles: the buckets taken together contain exactly the
\* input articles, each bucket keeping the relative input order.
C24_CategorizeFrame ==
    [][(pc = "categorize" /\ pc' = "categorized") =>
           /\ articles' = articles
           /\ BucketsPartitionInput']_vars

\* two articles went to one bucket and a third, between them in the input, to
\* another
C24_Witness ==
    /\ pc = "categorized"
    /\ Len(articles) = 3
    /\ categories.Politica = <<articles[1], articles[3]>>
    /\ categories.Outros = <<articles[2]>>

-----------------------------------------------------------------------------
\* the positions of the headings of the page whose text contains
\* "Ingrediente"
MatchingHeadings ==
    {i \in 1..Len(page.body) :
        page.body[i].tag = "h" /\ Contains(page.body[i].text, Ingrediente)}

\* the list-item texts of the first list after the first such heading
FirstListTexts ==
    LET anchored == {i \in MatchingHeadings : FindNextUl(page.body, i) # 0}
    IN IF anchored = {} THEN <<>>
       ELSE ListTexts(page.body[FindNextUl(page.body, Min(anchored))].items, variant)

\* the heading-anchored path gave the result of parse_recipe
HeadingPathUsed ==
    /\ pc = "parsed" /\ ~parsed.raised
    /\ Ran("heading") /\ ~Ran("last_resort")

\* C25: when the heading-anchored path of parse_recipe is used, its result
\* is the list-item texts of the first list element following a heading
\* whose text contains "Ingrediente", and nothing else: list items under
\* other lists or under further matching headings are not added.
C25_FirstListOnly ==
    HeadingPathUsed => parsed.ingredients = PyList(FirstListTexts)

\* the same on the pages with one such heading
C25_FirstListOfOneHeading ==
    (HeadingPathUsed /\ Cardinality(MatchingHeadings) = 1) =>
        parsed.ingredients = PyList(FirstListTexts)

\* the heading-anchored path was used on a page with one matching heading
\* and two lists after it
C25_OneHeadingReached ==
    /\ HeadingPathUsed
    /\ Len(page.body) = 3
    /\ MatchingHeadings = {1}
    /\ page.body[2].tag = "ul" /\ page.body[3].tag = "ul"
    /\ parsed.ingredients = PyList(<<<<"c">>>>)

\* C26: every ingredient string that parse_recipe returns from a fallback
\* path (heading-anchored list or last-resort scan) is non-empty and has no
\* surrounding whitespace, in every variant of parse_recipe.
C26_FallbackTextsClean ==
    (pc = "parsed" /\ ~parsed.raised /\ Ran("heading")
     /\ parsed.ingredients # None) =>
        \A i \in 1..Len(parsed.ingredients.list) :
            /\ parsed.ingredients.list[i] # <<>>
            /\ Strip(parsed.ingredients.list[i]) = parsed.ingredients.list[i]

\* the same in the copies that test each text before appending it
C26_CleanWhereTested ==
    variant # "meal_planner_whatsapp_1" => C26_FallbackTextsClean

\* a fallback path returned a text that had surrounding white space on the
\* page
C26_StrippedReached ==
    /\ pc = "parsed" /\ ~parsed.raised /\ Ran("heading")
    /\ parsed.ingredients = PyList(<<<<"a">>, <<"b">>>>)

-----------------------------------------------------------------------------
\* the entry behind the i-th article has a publication time
Dated(i) ==
    /\ "published_parsed" \in DOMAIN doc.entries[i]
    /\ doc.entries[i].published_parsed # None

\* C27: the published value that get_rss_articles attaches to an article is
\* the same instant as the feed entry's UTC publication time
\* (published_parsed), whatever the timezone of the host process.
C27_PublishedIsFeedInstant ==
    (pc = "fed" /\ ~result.raised) =>
        \A i \in 1..Len(result.articles) :
            Dated(i) =>
                result.articles[i].published
                    = Aware(doc.entries[i].published_parsed.fields)

\* the same on a host whose zone is UTC
C27_PublishedOnUtcHost ==
    host_tz = 0 => C27_PublishedIsFeedInstant

\* a dated entry was converted on a host whose zone is UTC
C27_UtcHostReached ==
    /\ pc = "fed" /\ ~result.raised
    /\ host_tz = 0
    /\ Len(result.articles) >= 1 /\ Dated(1)

-----------------------------------------------------------------------------
\* the i-th element of the page has a title of at least 3 words and a link
\* starting with "/" or "http"
UsableHeadline(i) ==
    /\ doc.tags[i].href # None
    /\ StartsWith(doc.tags[i].href, <<"/">>) \/ StartsWith(doc.tags[i].href, Http)
    /\ WordCount(GetTextStrip(doc.tags[i].text)) >= MinWords

\* the scan reaches the i-th element: the elements before it give fewer than
\* max_articles headlines
ReachedByScan(i) ==
    Len(ScrapeFrom(<<>>, {}, SubSeq(doc.tags, 1, i - 1), BaseUrl, limit)) < limit

Returned(title) ==
    \E j \in 1..Len(result.articles) : result.articles[j].title = title

\* C28: a title of at least 3 words that occurs in the page with a usable
\* link before max_articles headlines are collected is returned, even if the
\* same title occurred earlier on an element whose link was unusable.
C28_UsableTitleReturned ==
    (pc = "scraped" /\ ~result.raised) =>
        \A i \in 1..Len(doc.tags) :
            (UsableHeadline(i) /\ ReachedByScan(i)) =>
                Returned(GetTextStrip(doc.tags[i].text))

\* the same for the titles that no earlier element carries with an unusable
\* link
C28_ReturnedUnlessShadowed ==
    (pc = "scraped" /\ ~result.raised) =>
        \A i \in 1..Len(doc.tags) :
            (/\ UsableHeadline(i) /\ ReachedByScan(i)
             /\ \A k \in 1..(i - 1) :
                    GetTextStrip(doc.tags[k].text) = GetTextStrip(doc.tags[i].text)
                        => UsableHeadline(k))
            => Returned(GetTextStrip(doc.tags[i].text))

\* a title was returned from its second occurrence on the page
C28_SecondOccurrenceReached ==
    /\ pc = "scraped" /\ ~result.raised
    /\ Len(doc.tags) = 3
    /\ UsableHeadline(3) /\ ReachedByScan(3)
    /\ Returned(GetTextStrip(doc.tags[3].text))
    /\ GetTextStrip(doc.tags[2].text) # GetTextStrip(doc.tags[3].text)

-----------------------------------------------------------------------------
\* daily_job of news_agent.py has prepared its messages
DailyPrepared == variant = "news_agent" /\ pc \in {"dispatch", "done"}

HasMessageFor(b) == \E i \in 1..Len(messages) : messages[i].topic = b

\* C29: in daily_job, every non-empty bucket returned by categorize_articles
\* leads to a prepared message: no article is left out of all messages only
\* because of the category it was given.
C29_EveryBucketPrepared ==
    DailyPrepared =>
        \A b \in BucketNames :
            categorize_articles(articles)[b] # <<>> => HasMessageFor(b)

\* the same for the buckets Politica and Economia
C29_TopicBucketsPrepared ==
    DailyPrepared =>
        \A b \in {"Politica", "Economia"} :
            categorize_articles(articles)[b] # <<>> => HasMessageFor(b)

\* a run prepared a message for each of the two topics
C29_BothTopicsReached ==
    DailyPrepared /\ HasMessageFor("Politica") /\ HasMessageFor("Economia")

-----------------------------------------------------------------------------
(* send_whatsapp_message and send_template_message of news_agent.py,       *)
(* called once in every environment.                                       *)

\* the content SIDs send_template_message is called with
ContentSids == {None, Str(<<>>), DailySid}

InitSend ==
    /\ pc = "call"
    /\ variant = "news_agent"
    /\ environ \in Environs
    /\ send_message = TRUE /\ content_sid = FALSE
    /\ messages = <<>> /\ calls = <<>> /\ outcome = "running"
    /\ page = <<>> /\ parsed = None /\ all_ingredients = <<>> /\ shopping = <<>>
    /\ NewsIdle /\ MenuIdle /\ ExtractIdle /\ SchedIdle

\* send_whatsapp_message(message)
SendWhatsappMessage ==
    /\ pc = "call"
    /\ \E sent \in {send_whatsapp_message(environ, api_ok) : api_ok \in BOOLEAN} :
           /\ calls' = Append(calls, [idx |-> 1, kind |-> "freeform",
                                      topic |-> "", message |-> 0,
                                      sid |-> None,
                                      ok |-> ~sent.raised, created |-> sent.created])
           /\ outcome' = IF sent.raised THEN "raised" ELSE "returned"
    /\ pc' = "called"
    /\ UNCHANGED <<send_message, content_sid, environ, messages>>
    /\ UNCHANGED <<newsVars, mealVars, menuVars, extractVars, schedVars>>

\* send_template_message(content_sid, variables)
SendTemplateMessage ==
    /\ pc = "call"
    /\ \E sid \in ContentSids :
       \E sent \in {send_template_message(environ, sid, api_ok) : api_ok \in BOOLEAN} :
           /\ calls' = Append(calls, [idx |-> 1, kind |-> "template",
                                      topic |-> "", message |-> 0,
                                      sid |-> sid,
                                      ok |-> ~sent.raised, created |-> sent.created])
           /\ outcome' = IF sent.raised THEN "raised" ELSE "returned"
    /\ pc' = "called"
    /\ UNCHANGED <<send_message, content_sid, environ, messages>>
    /\ UNCHANGED <<newsVars, mealVars, menuVars, extractVars, schedVars>>

NextSend == SendWhatsappMessage \/ SendTemplateMessage

\* the senders called on their own and from daily_job
InitSenders == InitSend \/ InitDaily

NextSenders == NextSend \/ NextDaily

SpecSenders == InitSenders /\ [][NextSenders]_vars

\* a required setting of the k-th call is missing or empty
SettingMissing(k) ==
    \/ ~environ.Client
    \/ \E name \in SettingNames : ~TruthyText(environ[name])
    \/ /\ calls[k].kind = "template"
       /\ "sid" \in DOMAIN calls[k]
       /\ ~TruthyText(calls[k].sid)

\* C30: send_whatsapp_message and send_template_message raise an error and
\* make no Twilio call when any required setting (account SID, auth token,
\* from number, to number, and for templates the content SID) is missing or
\* empty; in daily_job that error is logged for the message concerned and
\* the run goes on to the next message.
C30_MissingSettingNoCall ==
    variant = "news_agent" =>
        /\ \A k \in 1..Len(calls) :
               SettingMissing(k) => ~calls[k].ok /\ calls[k].created = 0
        /\ (pc = "done" /\ send_message /\ messages # <<>>) =>
               /\ outcome = "returned"
               /\ \A i \in 1..Len(messages) : CallsFor(i) # {}

\* a run of daily_job with the auth token unset: both messages were handed
\* to the sender, which raised both times without calling Twilio
C30_Witness ==
    /\ variant = "news_agent" /\ pc = "done" /\ outcome = "returned"
    /\ environ.TWILIO_AUTH_TOKEN = None
    /\ Len(messages) = 2 /\ Len(calls) = 2
    /\ \A k \in 1..2 : ~calls[k].ok /\ calls[k].created = 0 /\ calls[k].message = k

\* send_template_message was called with an empty content SID in a complete
\* environment
C30_EmptySidReached ==
    /\ pc = "called"
    /\ environ = FullEnviron
    /\ calls[1].kind = "template" /\ calls[1].sid = Str(<<>>)
    /\ ~calls[1].ok /\ calls[1].created = 0

====
